---- MODULE Spec2Model ----
(***************************************************************************)
(* Poker-ledger backend: the record store (game sessions, members, player *)
(* transactions, dealer downs, expenses), the request handlers that write *)
(* it, the summary endpoint (ledger aggregation) and the analyze-till      *)
(* endpoint (discrepancy analysis).                                        *)
(*                                                                         *)
(* Money is a JavaScript number of currency units in the code; here it is  *)
(* an integer number of cents, so 500.00 is 50000.  Free text that the     *)
(* code pattern-matches (transaction notes) is a sequence of one-character *)
(* strings; other free text is an opaque string.                           *)
(***************************************************************************)
EXTENDS Integers, Sequences, FiniteSets, Bags, TLC

VARIABLES user, gameSession, gameSessionMember, playerTransaction, dealerDown,
          expense, resp, inFlight

vars == <<user, gameSession, gameSessionMember, playerTransaction, dealerDown,
          expense, resp, inFlight>>

store == <<user, gameSession, gameSessionMember, playerTransaction, dealerDown, expense>>

(***************************************************************************)
(* Bounds of the model.                                                    *)
(***************************************************************************)
\* at most this many event rows (transactions + dealer downs + expenses)
MaxEvents == 2

\* at most this many /new and /active requests between their two writes
MaxInFlight == 2

\* the completedGames counter is followed up to this value
MaxCompletedGames == 3

\* one currency unit, in cents
Unit == 100

Users == {"u1", "u2", "u3"}
SessionIds == {"s1", "s2"}

(***************************************************************************)
(* Text.                                                                   *)
(***************************************************************************)
NullNote == [null |-> TRUE, s |-> <<>>]
Note(chars) == [null |-> FALSE, s |-> chars]

LitReceived == <<"r", "e", "c", "e", "i", "v", "e", "d", " ", "$">>
LitCash == <<" ", "c", "a", "s", "h">>
LitCashPaid == <<"c", "a", "s", "h", " ", "p", "a", "i", "d", ":", " ", "$">>
LitParen == <<")">>
LitCreditSettled == <<"c", "r", "e", "d", "i", "t", " ", "s", "e", "t", "t", "l", "e", "d", ":", " ", "$">>
LitCreditSettledColon == <<"c", "r", "e", "d", "i", "t", " ", "s", "e", "t", "t", "l", "e", "d", ":">>
LitPaid == <<"p", "a", "i", "d", " ", "$">>
LitCredit == <<" ", "c", "r", "e", "d", "i", "t">>

\* "received $150 cash, paid $150 credit"
NoteSettle == <<"r", "e", "c", "e", "i", "v", "e", "d", " ", "$", "1", "5", "0", " ", "c", "a", "s", "h", ",", " ", "p", "a", "i", "d", " ", "$", "1", "5", "0", " ", "c", "r", "e", "d", "i", "t">>
\* "(cash paid: $100.00) credit settled: $200.00"
NoteLegacy == <<"(", "c", "a", "s", "h", " ", "p", "a", "i", "d", ":", " ", "$", "1", "0", "0", ".", "0", "0", ")", " ", "c", "r", "e", "d", "i", "t", " ", "s", "e", "t", "t", "l", "e", "d", ":", " ", "$", "2", "0", "0", ".", "0", "0">>
\* "received $1 cash (cash paid: $2)"
NoteBoth == <<"r", "e", "c", "e", "i", "v", "e", "d", " ", "$", "1", " ", "c", "a", "s", "h", " ", "(", "c", "a", "s", "h", " ", "p", "a", "i", "d", ":", " ", "$", "2", ")">>
\* "received $150.5 cash"
NoteOneDigit == <<"r", "e", "c", "e", "i", "v", "e", "d", " ", "$", "1", "5", "0", ".", "5", " ", "c", "a", "s", "h">>
\* "paid $400.00 toward credit"
NoteToward == <<"p", "a", "i", "d", " ", "$", "4", "0", "0", ".", "0", "0", " ", "t", "o", "w", "a", "r", "d", " ", "c", "r", "e", "d", "i", "t">>
\* "ok"
NotePlain == <<"o", "k">>

Digits == {"0", "1", "2", "3", "4", "5", "6", "7", "8", "9"}

DigitVal(c) ==
  CASE c = "0" -> 0 [] c = "1" -> 1 [] c = "2" -> 2 [] c = "3" -> 3 [] c = "4" -> 4
    [] c = "5" -> 5 [] c = "6" -> 6 [] c = "7" -> 7 [] c = "8" -> 8 [] c = "9" -> 9

\* the literal lit stands in s at position i
LitAt(s, i, lit) ==
  /\ i + Len(lit) - 1 <= Len(s)
  /\ \A k \in 1..Len(lit) : s[i + k - 1] = lit[k]

\* String.prototype.includes
includes(s, lit) == \E i \in 1..(Len(s) + 1) : LitAt(s, i, lit)

\* the ways /\d+(?:\.\d{2})?<suffix>/ matches at position p: <<k, f>> is k
\* integer digits followed (f) or not by a two-digit fraction
AmountMatchesAt(s, p, suffix) ==
  { kf \in (1..Len(s)) \X BOOLEAN :
      LET k == kf[1]
          f == kf[2]
      IN /\ p + k - 1 <= Len(s)
         /\ \A j \in p..(p + k - 1) : s[j] \in Digits
         /\ IF f
            THEN /\ p + k + 2 <= Len(s)
                 /\ s[p + k] = "."
                 /\ s[p + k + 1] \in Digits
                 /\ s[p + k + 2] \in Digits
                 /\ LitAt(s, p + k + 3, suffix)
            ELSE LitAt(s, p + k, suffix) }

\* String.prototype.match with /<prefix>(\d+(?:\.\d{2})?)<suffix>/: the
\* leftmost start; there the longest digit run the backtracking accepts, the
\* optional fraction taken when it can be.  Yields capture group 1.
match(s, prefix, suffix) ==
  LET starts == { i \in 1..Len(s) :
                    /\ LitAt(s, i, prefix)
                    /\ AmountMatchesAt(s, i + Len(prefix), suffix) # {} }
  IN IF starts = {}
     THEN [matched |-> FALSE, group |-> <<>>]
     ELSE LET i == CHOOSE x \in starts : \A y \in starts : x <= y
              p == i + Len(prefix)
              ms == AmountMatchesAt(s, p, suffix)
              k == CHOOSE x \in {m[1] : m \in ms} : \A m \in ms : m[1] <= x
              f == <<k, TRUE>> \in ms
          IN [matched |-> TRUE,
              group |-> SubSeq(s, p, IF f THEN p + k + 2 ELSE p + k - 1)]

RECURSIVE DigitsValue(_)
DigitsValue(ds) ==
  IF ds = <<>> THEN 0
  ELSE 10 * DigitsValue(SubSeq(ds, 1, Len(ds) - 1)) + DigitVal(ds[Len(ds)])

\* parseFloat of a capture of \d+(?:\.\d{2})?, in cents
parseFloat(g) ==
  IF Len(g) >= 3 /\ g[Len(g) - 2] = "."
  THEN Unit * DigitsValue(SubSeq(g, 1, Len(g) - 3))
         + 10 * DigitVal(g[Len(g) - 1]) + DigitVal(g[Len(g)])
  ELSE Unit * DigitsValue(g)

(***************************************************************************)
(* Arrays.                                                                 *)
(***************************************************************************)
RECURSIVE Sum(_)
\* xs.reduce((sum, x) => sum + x, 0)
Sum(xs) == IF xs = <<>> THEN 0 ELSE xs[1] + Sum(Tail(xs))

Max(a, b) == IF a >= b THEN a ELSE b

Abs(a) == IF a < 0 THEN 0 - a ELSE a

RECURSIVE Rows(_)
\* the rows of a table as the array a query returns (in some fixed order)
Rows(B) ==
  IF B = EmptyBag THEN <<>>
  ELSE LET r == CHOOSE x \in BagToSet(B) : TRUE
       IN <<r>> \o Rows(B (-) SetToBag({r}))

\* where: { gameSessionId: sid }
OfSession(B, sid) == SelectSeq(Rows(B), LAMBDA r : r.gameSessionId = sid)

(***************************************************************************)
(* GET /api/game/:sessionId/summary: the figures, as the handler computes  *)
(* them from the session row and its included playerTransactions (pt),     *)
(* dealerDowns (dd) and expenses (ex).                                     *)
(***************************************************************************)
totalBuyIns(pt) ==
  LET f == SelectSeq(pt, LAMBDA t : t.type = "buy-in")
  IN Sum([i \in DOMAIN f |-> f[i].amount])

totalCashouts(pt) ==
  LET f == SelectSeq(pt, LAMBDA t : t.type = "cashout")
  IN Sum([i \in DOMAIN f |-> f[i].amount])

totalTips(dd) == Sum([i \in DOMAIN dd |-> dd[i].tips])

\* a totalRake that skips the rake of downs nobody claimed
totalRakeOfClaimed(session, dd) ==
  IF session.totalRake > 0 THEN session.totalRake
  ELSE LET f == SelectSeq(dd, LAMBDA d : d.rakeClaimed)
       IN Sum([i \in DOMAIN f |-> f[i].rake])

\* a totalRake that forgets the figure entered for the session
totalRakeOfDowns(session, dd) == Sum([i \in DOMAIN dd |-> dd[i].rake])

totalRake(session, dd) ==
  IF session.totalRake > 0 THEN session.totalRake
  ELSE Sum([i \in DOMAIN dd |-> dd[i].rake])

totalExpenses(ex) == Sum([i \in DOMAIN ex |-> ex[i].amount])

totalPaidTips(dd) ==
  LET f == SelectSeq(dd, LAMBDA d : d.tipsPaid)
  IN Sum([i \in DOMAIN f |-> f[i].tips])

\* a netProfit that charges the tips paid out to the house
netProfitLessTips(session, dd, ex) ==
  totalRake(session, dd) - totalExpenses(ex) - totalPaidTips(dd)

netProfit(session, dd, ex) == totalRake(session, dd) - totalExpenses(ex)

cashBuyIns(pt) ==
  LET f == SelectSeq(pt, LAMBDA t : t.type = "buy-in" /\ t.paymentMethod = "cash")
  IN Sum([i \in DOMAIN f |-> f[i].amount])

\* a reducer that tries the legacy format before the current one
cashCashoutAmountLegacyFirst(t) ==
  IF ~t.notes.null /\ t.notes.s # <<>>
  THEN LET newMatch == match(t.notes.s, LitReceived, LitCash)
           oldMatch == match(t.notes.s, LitCashPaid, LitParen)
       IN IF oldMatch.matched THEN parseFloat(oldMatch.group)
          ELSE IF newMatch.matched THEN parseFloat(newMatch.group)
          ELSE t.amount
  ELSE t.amount

\* the reducer of cashCashouts: what one cash cashout takes out of the till
cashCashoutAmount(t) ==
  IF ~t.notes.null /\ t.notes.s # <<>>
  THEN LET newMatch == match(t.notes.s, LitReceived, LitCash)
           oldMatch == match(t.notes.s, LitCashPaid, LitParen)
       IN IF newMatch.matched THEN parseFloat(newMatch.group)
          ELSE IF oldMatch.matched THEN parseFloat(oldMatch.group)
          ELSE t.amount
  ELSE t.amount

cashCashouts(pt) ==
  LET f == SelectSeq(pt, LAMBDA t : t.type = "cashout" /\ t.paymentMethod = "cash")
  IN Sum([i \in DOMAIN f |-> cashCashoutAmount(f[i])])

\* a reducer that knows the legacy "credit settled:" format only
autoSettledAmountLegacyOnly(t) ==
  LET oldMatch == IF t.notes.null THEN [matched |-> FALSE, group |-> <<>>]
                  ELSE match(t.notes.s, LitCreditSettled, <<>>)
  IN IF oldMatch.matched THEN parseFloat(oldMatch.group) ELSE 0

\* the reducer of autoSettledCredit
autoSettledAmount(t) ==
  LET oldMatch == IF t.notes.null THEN [matched |-> FALSE, group |-> <<>>]
                  ELSE match(t.notes.s, LitCreditSettled, <<>>)
      newMatch == IF t.notes.null THEN [matched |-> FALSE, group |-> <<>>]
                  ELSE match(t.notes.s, LitPaid, LitCredit)
  IN IF oldMatch.matched THEN parseFloat(oldMatch.group)
     ELSE IF newMatch.matched THEN parseFloat(newMatch.group) ELSE 0

autoSettledCredit(pt) ==
  LET f == SelectSeq(pt, LAMBDA t :
             /\ t.type = "cashout"
             /\ ~t.notes.null
             /\ (includes(t.notes.s, LitCreditSettledColon) \/ includes(t.notes.s, LitPaid)))
  IN Sum([i \in DOMAIN f |-> autoSettledAmount(f[i])])

paidCreditBuyIns(pt) ==
  LET f == SelectSeq(pt, LAMBDA t :
             t.type = "buy-in" /\ t.paymentMethod = "credit" /\ t.isPaid = TRUE)
  IN Sum([i \in DOMAIN f |-> f[i].amount])

\* a manuallyPaidCredit without the floor at 0
manuallyPaidCreditUnfloored(pt) == paidCreditBuyIns(pt) - autoSettledCredit(pt)

manuallyPaidCredit(pt) == Max(0, paidCreditBuyIns(pt) - autoSettledCredit(pt))

\* a tillBalance that takes every tip out of the till, paid or not
tillBalanceAllTips(pt, dd, ex) ==
  cashBuyIns(pt) + manuallyPaidCredit(pt) - cashCashouts(pt) - totalTips(dd)
    - totalExpenses(ex)

tillBalance(pt, dd, ex) ==
  cashBuyIns(pt) + manuallyPaidCredit(pt) - cashCashouts(pt) - totalPaidTips(dd)
    - totalExpenses(ex)

RECURSIVE playerCreditMapFrom(_, _)
\* session.playerTransactions.forEach(...) over the Map built so far
playerCreditMapFrom(pt, map) ==
  IF pt = <<>> THEN map
  ELSE LET t == Head(pt)
       IN IF t.paymentMethod = "credit"
          THEN LET existing == IF t.playerName \in DOMAIN map
                               THEN map[t.playerName]
                               ELSE [buyIns |-> 0, cashouts |-> 0]
                   updated == IF t.type = "buy-in" /\ ~t.isPaid
                              THEN [existing EXCEPT !.buyIns = @ + t.amount]
                              ELSE IF t.type = "cashout"
                              THEN [existing EXCEPT !.cashouts = @ + t.amount]
                              ELSE existing
               IN playerCreditMapFrom(Tail(pt),
                    [p \in DOMAIN map \cup {t.playerName} |->
                       IF p = t.playerName THEN updated ELSE map[p]])
          ELSE playerCreditMapFrom(Tail(pt), map)

playerCreditMap(pt) == playerCreditMapFrom(pt, <<>>)

RECURSIVE creditBalanceOver(_, _)
\* playerCreditMap.forEach(({buyIns, cashouts}) => creditBalance += netOwed)
creditBalanceOver(map, keys) ==
  IF keys = {} THEN 0
  ELSE LET p == CHOOSE x \in keys : TRUE
           netOwed == Max(0, map[p].buyIns - map[p].cashouts)
       IN netOwed + creditBalanceOver(map, keys \ {p})

\* a creditBalance floored once, over all players together
creditBalanceAggregate(pt) ==
  LET map == playerCreditMap(pt)
      owed == [p \in DOMAIN map |-> map[p].buyIns - map[p].cashouts]
      total[keys \in SUBSET DOMAIN map] ==
        IF keys = {} THEN 0
        ELSE LET p == CHOOSE x \in keys : TRUE IN owed[p] + total[keys \ {p}]
  IN Max(0, total[DOMAIN map])

creditBalance(pt) ==
  LET map == playerCreditMap(pt) IN creditBalanceOver(map, DOMAIN map)

playerCount(pt) == Cardinality({pt[i].playerName : i \in DOMAIN pt})

\* the GameSummary the handler returns (of the session: its id and active flag)
GameSummary(sessionId, session, pt, dd, ex) ==
  [session |-> [id |-> sessionId, isActive |-> session.isActive],
   totalBuyIns |-> totalBuyIns(pt),
   totalCashouts |-> totalCashouts(pt),
   totalTips |-> totalTips(dd),
   totalRake |-> totalRake(session, dd),
   totalExpenses |-> totalExpenses(ex),
   netProfit |-> netProfit(session, dd, ex),
   tillBalance |-> tillBalance(pt, dd, ex),
   playerCount |-> playerCount(pt),
   creditBalance |-> creditBalance(pt)]

(***************************************************************************)
(* POST /api/ai/analyze-till: the expected till, computed by the handler's *)
(* own copy of the till arithmetic.                                        *)
(***************************************************************************)
aiCashBuyIns(pt) ==
  LET f == SelectSeq(pt, LAMBDA t : t.type = "buy-in" /\ t.paymentMethod = "cash")
  IN Sum([i \in DOMAIN f |-> f[i].amount])

aiCashCashoutAmount(t) ==
  IF ~t.notes.null /\ t.notes.s # <<>>
  THEN LET newMatch == match(t.notes.s, LitReceived, LitCash)
           oldMatch == match(t.notes.s, LitCashPaid, LitParen)
       IN IF newMatch.matched /\ newMatch.group # <<>> THEN parseFloat(newMatch.group)
          ELSE IF oldMatch.matched /\ oldMatch.group # <<>> THEN parseFloat(oldMatch.group)
          ELSE t.amount
  ELSE t.amount

aiCashCashouts(pt) ==
  LET f == SelectSeq(pt, LAMBDA t : t.type = "cashout" /\ t.paymentMethod = "cash")
  IN Sum([i \in DOMAIN f |-> aiCashCashoutAmount(f[i])])

aiAutoSettledAmount(t) ==
  LET oldMatch == IF t.notes.null THEN [matched |-> FALSE, group |-> <<>>]
                  ELSE match(t.notes.s, LitCreditSettled, <<>>)
      newMatch == IF t.notes.null THEN [matched |-> FALSE, group |-> <<>>]
                  ELSE match(t.notes.s, LitPaid, LitCredit)
  IN IF oldMatch.matched /\ oldMatch.group # <<>> THEN parseFloat(oldMatch.group)
     ELSE IF newMatch.matched /\ newMatch.group # <<>> THEN parseFloat(newMatch.group)
     ELSE 0

aiAutoSettledCredit(pt) ==
  LET f == SelectSeq(pt, LAMBDA t :
             /\ t.type = "cashout"
             /\ ~t.notes.null
             /\ (includes(t.notes.s, LitCreditSettledColon) \/ includes(t.notes.s, LitPaid)))
  IN Sum([i \in DOMAIN f |-> aiAutoSettledAmount(f[i])])

aiPaidCreditBuyIns(pt) ==
  LET f == SelectSeq(pt, LAMBDA t :
             t.type = "buy-in" /\ t.paymentMethod = "credit" /\ t.isPaid = TRUE)
  IN Sum([i \in DOMAIN f |-> f[i].amount])

aiManuallyPaidCredit(pt) == Max(0, aiPaidCreditBuyIns(pt) - aiAutoSettledCredit(pt))

aiTotalPaidTips(dd) ==
  LET f == SelectSeq(dd, LAMBDA d : d.tipsPaid)
  IN Sum([i \in DOMAIN f |-> f[i].tips])

\* a totalClaimedRake that takes the rake of every down, claimed or not
totalClaimedRakeOfAll(dd) == Sum([i \in DOMAIN dd |-> dd[i].rake])

totalClaimedRake(dd) ==
  LET f == SelectSeq(dd, LAMBDA d : d.rakeClaimed)
  IN Sum([i \in DOMAIN f |-> f[i].rake])

aiTotalExpenses(ex) == Sum([i \in DOMAIN ex |-> ex[i].amount])

expectedTill(pt, dd, ex) ==
  aiCashBuyIns(pt) + aiManuallyPaidCredit(pt) - aiCashCashouts(pt)
    - aiTotalPaidTips(dd) - totalClaimedRake(dd) - aiTotalExpenses(ex)

(***************************************************************************)
(* The collaborator's reply and its normalisation (analyze-till).          *)
(* A JSON value is [t |-> type, v |-> value]; an object's v is a function  *)
(* from its keys, an array's v a sequence.                                 *)
(***************************************************************************)
Undefined == [t |-> "undefined"]
JNull == [t |-> "null"]
JNum(n) == [t |-> "number", v |-> n]
JStr(x) == [t |-> "string", v |-> x]
JArr(xs) == [t |-> "array", v |-> xs]
JObj(f) == [t |-> "object", v |-> f]

\* JavaScript truthiness
Truthy(x) ==
  CASE x.t \in {"undefined", "null"} -> FALSE
    [] x.t = "number" -> x.v # 0
    [] x.t = "string" -> x.v # ""
    [] OTHER -> TRUE

\* x[key]; reading a property of null or undefined throws a TypeError
Throws(x) == x.t \in {"undefined", "null"}
Get(x, key) ==
  IF x.t = "object" /\ key \in DOMAIN x.v THEN x.v[key] ELSE Undefined

\* a || b
OrElse(a, b) == IF Truthy(a) THEN a ELSE b

\* String(x): a string stays itself, anything else is some text
String(x) == IF x.t = "string" THEN x.v ELSE "[stringified]"

Likelihoods == {"high", "medium", "low"}

\* (aiResponse.<key> || []) as a sequence; .map throws on a non-array
ListOrEmpty(x) == IF Truthy(x) THEN x ELSE JArr(<<>>)

\* a mapping of causes that puts 0 where the amount is no number
normalizeCauseZero(cause) ==
  [description |-> String(OrElse(Get(cause, "description"), JStr(""))),
   likelihood |-> LET l == Get(cause, "likelihood")
                  IN IF l.t = "string" /\ l.v \in Likelihoods THEN l.v ELSE "medium",
   amount |-> LET a == Get(cause, "amount")
              IN IF a.t = "number" THEN a ELSE JNum(0),
   transactionIds |-> LET ids == Get(cause, "transactionIds")
                      IN IF ids.t = "array" THEN ids ELSE Undefined]

normalizeCause(cause) ==
  [description |-> String(OrElse(Get(cause, "description"), JStr(""))),
   likelihood |-> LET l == Get(cause, "likelihood")
                  IN IF l.t = "string" /\ l.v \in Likelihoods THEN l.v ELSE "medium",
   amount |-> LET a == Get(cause, "amount")
              IN IF a.t = "number" THEN a ELSE Undefined,
   transactionIds |-> LET ids == Get(cause, "transactionIds")
                      IN IF ids.t = "array" THEN ids ELSE Undefined]

normalizeReview(t) ==
  [id |-> String(OrElse(Get(t, "id"), JStr(""))),
   playerName |-> String(OrElse(Get(t, "playerName"), JStr("Unknown"))),
   type |-> String(OrElse(Get(t, "type"), JStr(""))),
   amount |-> LET a == Get(t, "amount") IN IF a.t = "number" THEN a ELSE JNum(0),
   paymentMethod |-> String(OrElse(Get(t, "paymentMethod"), JStr(""))),
   notes |-> OrElse(Get(t, "notes"), JNull),
   reason |-> String(OrElse(Get(t, "reason"), JStr("")))]

\* no recommendation at all in place of the two stock ones
NoRecommendations == <<>>

DefaultRecommendations ==
  <<"Review all transactions for accuracy", "Double-check cash counts">>

\* the statements of the try block after JSON.parse throw a TypeError
normalizeThrows(aiResponse) ==
  \/ Throws(aiResponse)
  \/ LET causes == ListOrEmpty(Get(aiResponse, "possibleCauses"))
         reviews == ListOrEmpty(Get(aiResponse, "transactionsToReview"))
     IN \/ causes.t # "array"
        \/ \E i \in DOMAIN causes.v : Throws(causes.v[i])
        \/ reviews.t # "array"
        \/ \E i \in DOMAIN reviews.v : Throws(reviews.v[i])

normalize(aiResponse, discrepancyAmount, expected, actual) ==
  LET causes == ListOrEmpty(Get(aiResponse, "possibleCauses")).v
      reviews == ListOrEmpty(Get(aiResponse, "transactionsToReview")).v
      recs == Get(aiResponse, "recommendations")
  IN [discrepancyAmount |-> discrepancyAmount,
      expectedTill |-> expected,
      actualTill |-> actual,
      summary |-> String(OrElse(Get(aiResponse, "summary"),
                    JStr(IF discrepancyAmount > 0 THEN "Till is over" ELSE "Till is short"))),
      possibleCauses |-> [i \in DOMAIN causes |-> normalizeCause(causes[i])],
      transactionsToReview |-> [i \in DOMAIN reviews |-> normalizeReview(reviews[i])],
      recommendations |-> IF recs.t = "array"
                          THEN [i \in DOMAIN recs.v |-> String(recs.v[i])]
                          ELSE DefaultRecommendations]

\* what the collaborator may do with one call
GoodReply ==
  JObj([summary |-> JStr("short"),
        possibleCauses |-> JArr(<<JObj([description |-> JStr("miscount"),
                                        likelihood |-> JStr("high"),
                                        amount |-> JNum(100)])>>),
        transactionsToReview |-> JArr(<<>>),
        recommendations |-> JArr(<<JStr("recount")>>)])

AiReplies ==
  { [kind |-> "throws"],                      \* the request fails
    [kind |-> "empty"],                       \* no message content
    [kind |-> "unparsable"],                  \* content JSON.parse rejects
    [kind |-> "json", value |-> GoodReply],   \* content that parses
    [kind |-> "json", value |-> JNull] }

\* JSON the collaborator may send that JSON.parse accepts, well formed or not
EmptyLists ==
  JObj([summary |-> JStr("inconclusive"), possibleCauses |-> JArr(<<>>),
        transactionsToReview |-> JArr(<<>>), recommendations |-> JArr(<<>>)])
Sloppy ==
  JObj([possibleCauses |-> JArr(<<JObj([likelihood |-> JStr("certain"),
                                        amount |-> JStr("12"),
                                        transactionIds |-> JArr(<<JNum(7)>>)])>>),
        transactionsToReview |-> JArr(<<JObj([id |-> JStr("t1"),
                                              amount |-> JStr("12"),
                                              notes |-> JNum(5)]),
                                        JObj([id |-> JStr("t2"),
                                              amount |-> JNum(300)])>>)])

JsonReplies ==
  { [kind |-> "json", value |-> v] :
      v \in { GoodReply, EmptyLists, Sloppy,
              JNull, JNum(5), JStr("sorry"), JArr(<<>>),
              JObj([summary |-> JNum(0)]),
              JObj([recommendations |-> JStr("recount")]),
              JObj([possibleCauses |-> JNull, transactionsToReview |-> JNum(0)]),
              JObj([possibleCauses |-> JStr("none")]),
              JObj([possibleCauses |-> JArr(<<JNull>>)]),
              JObj([transactionsToReview |-> JObj([id |-> JStr("t1")])]),
              JObj([transactionsToReview |-> JArr(<<JStr("t1"), JNull>>)]) } }

(***************************************************************************)
(* The store.                                                              *)
(***************************************************************************)
\* an id that names no row
NoRow == [missing |-> TRUE]

Anonymous == "anonymous"

EventCount ==
  BagCardinality(playerTransaction) + BagCardinality(dealerDown)
    + BagCardinality(expense)

\* where: { id, OR: [{ userId }, { members: { some: { userId } } }] }
HasAccess(u, sid) ==
  /\ sid \in DOMAIN gameSession
  /\ \/ gameSession[sid].userId = u
     \/ [userId |-> u, gameSessionId |-> sid] \in gameSessionMember

\* a check that finds the row and does not look at its owner
NotFound(u, row, table) == ~BagIn(row, table)

\* !row || row.gameSession.userId !== user.id
NotOwned(u, row, table) ==
  \/ ~BagIn(row, table)
  \/ gameSession[row.gameSessionId].userId # u

\* a write that stores the new version of the row beside the old one
UpdateKeeping(table, row, new) == table (+) SetToBag({new})

Insert(table, row) == table (+) SetToBag({row})
Delete(table, row) == table (-) SetToBag({row})
Update(table, row, new) == (table (-) SetToBag({row})) (+) SetToBag({new})

RECURSIVE BagOf(_)
BagOf(rows) ==
  IF rows = <<>> THEN EmptyBag ELSE SetToBag({Head(rows)}) (+) BagOf(Tail(rows))

\* updateMany({ where, data }): where is the set of rows the filter selects,
\* data the fields written on each of them
UpdateMany(table, where, data) ==
  LET rows == Rows(table)
  IN BagOf([i \in DOMAIN rows |->
              IF rows[i] \in where
              THEN [f \in DOMAIN rows[i] |->
                      IF f \in DOMAIN data THEN data[f] ELSE rows[i][f]]
              ELSE rows[i]])

\* c.json({ error: message }, status)
Error(op, status, message) ==
  [op |-> "error", status |-> status, body |-> [error |-> message]]

Ok(op, body) == [op |-> op, status |-> 200, body |-> body]

\* no request is being served
NoResponse == [op |-> "none", status |-> 0, body |-> [error |-> ""]]

\* no request of the game router is between two of its statements
NoneInFlight == EmptyBag

\* endedAt of a session that has not ended
NullDate == 0

\* the user table: completedGames defaults to 0
NewUsers == [u \in Users |-> [completedGames |-> 0]]

Init ==
  /\ user = NewUsers
  /\ inFlight = NoneInFlight
  /\ gameSession = [sid \in {"s1"} |-> [userId |-> "u1", isActive |-> TRUE, endedAt |-> NullDate,
                                         totalRake |-> 0]]
  /\ gameSessionMember = {[userId |-> "u2", gameSessionId |-> "s1"]}
  /\ playerTransaction = EmptyBag
  /\ dealerDown = EmptyBag
  /\ expense = EmptyBag
  /\ resp = NoResponse

\* requireAuth: no authenticated user
RequireAuth ==
  /\ resp' = Error("requireAuth", 401, "Unauthorized - Please sign in")
  /\ UNCHANGED <<store, inFlight>>

(***************************************************************************)
(* /api/players                                                            *)
(***************************************************************************)
\* the request bodies the clients send (addPlayerTransactionRequestSchema,
\* updatePlayerTransactionRequestSchema)
TxRequests ==
  { [playerName |-> "alice", type |-> "buy-in", amount |-> 50000,
     paymentMethod |-> "cash", notes |-> NullNote],
    [playerName |-> "alice", type |-> "buy-in", amount |-> 50000,
     paymentMethod |-> "credit", notes |-> NullNote],
    [playerName |-> "alice", type |-> "cashout", amount |-> 30000,
     paymentMethod |-> "cash", notes |-> Note(NoteSettle)],
    [playerName |-> "bob", type |-> "cashout", amount |-> 30000,
     paymentMethod |-> "credit", notes |-> NullNote],
    [playerName |-> "bob", type |-> "buy-in", amount |-> 50000,
     paymentMethod |-> "electronic", notes |-> NullNote] }

TxUpdateRequests ==
  { [amount |-> 30000, paymentMethod |-> "credit", notes |-> Note(NoteSettle)] }

AddTransaction(u, gameSessionId) ==
  /\ EventCount < MaxEvents
  /\ IF ~HasAccess(u, gameSessionId)
     THEN /\ resp' = Error("addTransaction", 404, "Game session not found")
          /\ UNCHANGED playerTransaction
     ELSE \E data \in TxRequests :
          /\ playerTransaction' = Insert(playerTransaction,
               [playerName |-> data.playerName, type |-> data.type,
                amount |-> data.amount, paymentMethod |-> data.paymentMethod,
                notes |-> data.notes, isPaid |-> TRUE,
                gameSessionId |-> gameSessionId])
          /\ resp' = Ok("addTransaction", [success |-> TRUE])
  /\ UNCHANGED <<user, gameSession, gameSessionMember, dealerDown, expense, inFlight>>

DeleteTransaction(u, row) ==
  /\ IF NotOwned(u, row, playerTransaction)
     THEN /\ resp' = Error("deleteTransaction", 404, "Transaction not found")
          /\ UNCHANGED playerTransaction
     ELSE /\ playerTransaction' = Delete(playerTransaction, row)
          /\ resp' = Ok("deleteTransaction", [success |-> TRUE])
  /\ UNCHANGED <<user, gameSession, gameSessionMember, dealerDown, expense, inFlight>>

\* a conversion that stores the empty string for notes left out
orEmpty(notes) == IF notes = Undefined THEN Note(<<>>) ELSE notes

\* data.notes ?? null
orNull(notes) == IF notes = Undefined THEN NullNote ELSE notes

\* update bodies that leave the notes out
TxUpdateRequestsOmitting ==
  { [amount |-> 12345, paymentMethod |-> "electronic", notes |-> Undefined],
    [amount |-> 30000, paymentMethod |-> "cash", notes |-> Undefined] }

\* PUT /transaction/:id, the body one of requests
UpdateTransactionFrom(u, row, requests) ==
  /\ IF NotOwned(u, row, playerTransaction)
     THEN /\ resp' = Error("updateTransaction", 404, "Transaction not found")
          /\ UNCHANGED playerTransaction
     ELSE \E data \in requests :
          /\ playerTransaction' = Update(playerTransaction, row,
               [row EXCEPT !.amount = data.amount,
                           !.paymentMethod = data.paymentMethod,
                           !.notes = orNull(data.notes)])
          /\ resp' = Ok("updateTransaction", [success |-> TRUE])
  /\ UNCHANGED <<user, gameSession, gameSessionMember, dealerDown, expense, inFlight>>

UpdateTransaction(u, row) == UpdateTransactionFrom(u, row, TxUpdateRequests)

MarkPaid(u, row) ==
  /\ IF NotOwned(u, row, playerTransaction)
     THEN /\ resp' = Error("markPaid", 404, "Transaction not found")
          /\ UNCHANGED playerTransaction
     ELSE /\ playerTransaction' = Update(playerTransaction, row, [row EXCEPT !.isPaid = TRUE])
          /\ resp' = Ok("markPaid", [success |-> TRUE])
  /\ UNCHANGED <<user, gameSession, gameSessionMember, dealerDown, expense, inFlight>>

MarkUnpaid(u, row) ==
  /\ IF NotOwned(u, row, playerTransaction)
     THEN /\ resp' = Error("markUnpaid", 404, "Transaction not found")
          /\ UNCHANGED playerTransaction
     ELSE /\ playerTransaction' = Update(playerTransaction, row, [row EXCEPT !.isPaid = FALSE])
          /\ resp' = Ok("markUnpaid", [success |-> TRUE])
  /\ UNCHANGED <<user, gameSession, gameSessionMember, dealerDown, expense, inFlight>>

(***************************************************************************)
(* /api/dealers                                                            *)
(***************************************************************************)
\* addDealerDownRequestSchema, updateDealerDownRequestSchema
DownRequests == { [dealerName |-> "dan", tips |-> 2000, rake |-> 1000] }
DownUpdateRequests == { [dealerName |-> "eve", tips |-> 3000, rake |-> 1000] }

AddDealerDown(u, gameSessionId) ==
  /\ EventCount < MaxEvents
  /\ IF ~HasAccess(u, gameSessionId)
     THEN /\ resp' = Error("addDealerDown", 404, "Game session not found")
          /\ UNCHANGED dealerDown
     ELSE IF ~gameSession[gameSessionId].isActive
     THEN /\ resp' = Error("addDealerDown", 400, "Game session is not active")
          /\ UNCHANGED dealerDown
     ELSE \E data \in DownRequests :
          /\ dealerDown' = Insert(dealerDown,
               [dealerName |-> data.dealerName, tips |-> data.tips, rake |-> data.rake,
                tipsPaid |-> FALSE, rakeClaimed |-> FALSE,
                gameSessionId |-> gameSessionId])
          /\ resp' = Ok("addDealerDown", [success |-> TRUE])
  /\ UNCHANGED <<user, gameSession, gameSessionMember, playerTransaction, expense, inFlight>>

DeleteDealerDown(u, row) ==
  /\ IF NotOwned(u, row, dealerDown)
     THEN /\ resp' = Error("deleteDealerDown", 404, "Dealer down not found")
          /\ UNCHANGED dealerDown
     ELSE /\ dealerDown' = Delete(dealerDown, row)
          /\ resp' = Ok("deleteDealerDown", [success |-> TRUE])
  /\ UNCHANGED <<user, gameSession, gameSessionMember, playerTransaction, expense, inFlight>>

UpdateDealerDown(u, row) ==
  /\ IF NotOwned(u, row, dealerDown)
     THEN /\ resp' = Error("updateDealerDown", 404, "Dealer down not found")
          /\ UNCHANGED dealerDown
     ELSE \E data \in DownUpdateRequests :
          /\ dealerDown' = Update(dealerDown, row,
               [row EXCEPT !.dealerName = data.dealerName,
                           !.tips = data.tips,
                           !.rake = data.rake])
          /\ resp' = Ok("updateDealerDown", [success |-> TRUE])
  /\ UNCHANGED <<user, gameSession, gameSessionMember, playerTransaction, expense, inFlight>>

\* PUT /down/:id/pay, /unpay, /claim-rake, /unclaim-rake
SetDownFlag(op, u, row, new) ==
  /\ IF NotOwned(u, row, dealerDown)
     THEN /\ resp' = Error(op, 404, "Dealer down not found")
          /\ UNCHANGED dealerDown
     ELSE /\ dealerDown' = Update(dealerDown, row, new)
          /\ resp' = Ok(op, [success |-> TRUE])
  /\ UNCHANGED <<user, gameSession, gameSessionMember, playerTransaction, expense, inFlight>>

PayTips(u, row) ==
  SetDownFlag("pay", u, row, IF row = NoRow THEN row ELSE [row EXCEPT !.tipsPaid = TRUE])

UnpayTips(u, row) ==
  SetDownFlag("unpay", u, row, IF row = NoRow THEN row ELSE [row EXCEPT !.tipsPaid = FALSE])

ClaimRake(u, row) ==
  SetDownFlag("claim-rake", u, row, IF row = NoRow THEN row ELSE [row EXCEPT !.rakeClaimed = TRUE])

UnclaimRake(u, row) ==
  SetDownFlag("unclaim-rake", u, row, IF row = NoRow THEN row ELSE [row EXCEPT !.rakeClaimed = FALSE])

DealerNames == {"dan", "eve"}
Percentages == {0, 70, 100}

\* every unpaid down of the session, whoever dealt it
unpaidDownsAnyDealer(table, data) ==
  SelectSeq(Rows(table), LAMBDA d : /\ d.gameSessionId = data.gameSessionId
                                    /\ d.tipsPaid = FALSE)

\* where: { gameSessionId, dealerName, tipsPaid: false }
unpaidDowns(table, data) ==
  SelectSeq(Rows(table), LAMBDA d : /\ d.gameSessionId = data.gameSessionId
                                    /\ d.dealerName = data.dealerName
                                    /\ d.tipsPaid = FALSE)

\* the share the percentage leaves to the owner
dealerPayoutOwnerShare(tips, percentage) == (tips * (100 - percentage)) \div 100

\* (tips * percentage) / 100; tips are whole multiples of 0.10 and
\* percentages multiples of 10 in the model, so the quotient is a whole
\* number of cents
dealerPayout(tips, percentage) == (tips * percentage) \div 100

\* the request read by the handler and its c.json answer
ClaimTipsResponse(u, data, body) ==
  [op |-> "claim-tips-by-dealer", status |-> 200, body |-> body,
   request |-> [user |-> u, dealerName |-> data.dealerName,
                gameSessionId |-> data.gameSessionId, percentage |-> data.percentage]]

ClaimTipsByDealer(u, gameSessionId) ==
  /\ IF gameSessionId \notin DOMAIN gameSession
     THEN /\ resp' = Error("claim-tips-by-dealer", 404,
                           "Game session does not exist. It may have been deleted.")
          /\ UNCHANGED dealerDown
     ELSE IF gameSession[gameSessionId].userId # u
     THEN /\ resp' = Error("claim-tips-by-dealer", 403,
                           "You don't have access to this game session. You may be logged in with a different account.")
          /\ UNCHANGED dealerDown
     ELSE \E dealerName \in DealerNames, percentage \in Percentages :
          LET data == [dealerName |-> dealerName, gameSessionId |-> gameSessionId,
                       percentage |-> percentage]
              unpaid == unpaidDowns(dealerDown, data)
              tipsClaimed == Sum([i \in DOMAIN unpaid |-> unpaid[i].tips])
              payout == dealerPayout(tipsClaimed, percentage)
              ownerCut == tipsClaimed - payout
          IN IF Len(unpaid) = 0
             THEN /\ resp' = ClaimTipsResponse(u, data,
                       [updatedCount |-> 0, totalTipsClaimed |-> 0,
                        ownerCut |-> 0, dealerPayout |-> 0])
                  /\ UNCHANGED dealerDown
             ELSE /\ dealerDown' = UpdateMany(dealerDown,
                                     {unpaidDowns(dealerDown, data)[i] :
                                        i \in DOMAIN unpaidDowns(dealerDown, data)},
                                     [tipsPaid |-> TRUE])
                  /\ resp' = ClaimTipsResponse(u, data,
                       [updatedCount |-> Len(unpaid),
                        totalTipsClaimed |-> tipsClaimed,
                        ownerCut |-> ownerCut, dealerPayout |-> payout])
  /\ UNCHANGED <<user, gameSession, gameSessionMember, playerTransaction, expense, inFlight>>

\* POST /claim-tips-by-dealer as its awaited statements run when other
\* requests run between them.  First the reads: the two session lookups and
\* findMany of the unpaid downs, with the totals computed from what was
\* found; a request that found unpaid downs is in inFlight until its write.
ClaimTipsFind(u, gameSessionId) ==
  /\ IF gameSessionId \notin DOMAIN gameSession
     THEN /\ resp' = Error("claim-tips-by-dealer", 404,
                           "Game session does not exist. It may have been deleted.")
          /\ UNCHANGED inFlight
     ELSE IF gameSession[gameSessionId].userId # u
     THEN /\ resp' = Error("claim-tips-by-dealer", 403,
                           "You don't have access to this game session. You may be logged in with a different account.")
          /\ UNCHANGED inFlight
     ELSE \E dealerName \in DealerNames, percentage \in Percentages :
          LET data == [dealerName |-> dealerName, gameSessionId |-> gameSessionId,
                       percentage |-> percentage]
              unpaid == unpaidDowns(dealerDown, data)
              tipsClaimed == Sum([i \in DOMAIN unpaid |-> unpaid[i].tips])
          IN IF Len(unpaid) = 0
             THEN /\ resp' = ClaimTipsResponse(u, data,
                       [updatedCount |-> 0, totalTipsClaimed |-> 0,
                        ownerCut |-> 0, dealerPayout |-> 0])
                  /\ UNCHANGED inFlight
             ELSE /\ BagCardinality(inFlight) < MaxInFlight
                  /\ inFlight' = inFlight (+) SetToBag({
                       [op |-> "claim-tips-by-dealer", userId |-> u, data |-> data,
                        unpaidDowns |-> Len(unpaid), totalTips |-> tipsClaimed]})
                  /\ UNCHANGED resp
  /\ UNCHANGED store

\* then the write: updateMany over the downs that are unpaid now, and the
\* answer, with the count of the write and the totals of the reads
ClaimTipsUpdate(call) ==
  /\ BagIn(call, inFlight) /\ call.op = "claim-tips-by-dealer"
  /\ LET where == unpaidDowns(dealerDown, call.data)
         payout == dealerPayout(call.totalTips, call.data.percentage)
     IN /\ dealerDown' = UpdateMany(dealerDown, {where[i] : i \in DOMAIN where},
                                    [tipsPaid |-> TRUE])
        /\ resp' = ClaimTipsResponse(call.userId, call.data,
                     [updatedCount |-> Len(where),
                      totalTipsClaimed |-> call.totalTips,
                      ownerCut |-> call.totalTips - payout,
                      dealerPayout |-> payout])
  /\ inFlight' = inFlight (-) SetToBag({call})
  /\ UNCHANGED <<user, gameSession, gameSessionMember, playerTransaction, expense>>

ClaimAllRake(u, sid) ==
  /\ IF sid \notin DOMAIN gameSession
     THEN /\ resp' = Error("claim-all-rake", 404,
                           "Game session does not exist. It may have been deleted.")
          /\ UNCHANGED dealerDown
     ELSE IF gameSession[sid].userId # u
     THEN /\ resp' = Error("claim-all-rake", 403,
                           "You don't have access to this game session. You may be logged in with a different account.")
          /\ UNCHANGED dealerDown
     ELSE LET Unclaimed(d) == d.gameSessionId = sid /\ d.rakeClaimed = FALSE
              unclaimedDowns == SelectSeq(Rows(dealerDown), Unclaimed)
          IN IF Len(unclaimedDowns) = 0
             THEN /\ resp' = Ok("claim-all-rake", [updatedCount |-> 0, totalRakeClaimed |-> 0])
                  /\ UNCHANGED dealerDown
             ELSE /\ dealerDown' = UpdateMany(dealerDown, {d \in BagToSet(dealerDown) : Unclaimed(d)},
                                                [rakeClaimed |-> TRUE])
                  /\ resp' = Ok("claim-all-rake",
                       [updatedCount |-> Len(unclaimedDowns),
                        totalRakeClaimed |->
                          Sum([i \in DOMAIN unclaimedDowns |-> unclaimedDowns[i].rake])])
  /\ UNCHANGED <<user, gameSession, gameSessionMember, playerTransaction, expense, inFlight>>

\* updateTotalRakeRequestSchema: totalRake >= 0
TotalRakeInputs == {0, 4000}

UpdateTotalRake(u, gameSessionId) ==
  /\ IF gameSessionId \notin DOMAIN gameSession
     THEN /\ resp' = Error("total-rake", 404,
                           "Game session does not exist. It may have been deleted.")
          /\ UNCHANGED gameSession
     ELSE IF ~HasAccess(u, gameSessionId)
     THEN /\ resp' = Error("total-rake", 403,
                           "You don't have access to this game session. You may be logged in with a different account.")
          /\ UNCHANGED gameSession
     ELSE IF ~gameSession[gameSessionId].isActive
     THEN /\ resp' = Error("total-rake", 400, "Game session is not active")
          /\ UNCHANGED gameSession
     ELSE \E totalRakeInput \in TotalRakeInputs :
          /\ gameSession' = [gameSession EXCEPT ![gameSessionId].totalRake = totalRakeInput]
          /\ resp' = Ok("total-rake", [totalRake |-> totalRakeInput])
  /\ UNCHANGED <<user, gameSessionMember, playerTransaction, dealerDown, expense, inFlight>>

(***************************************************************************)
(* /api/expenses                                                           *)
(***************************************************************************)
\* addExpenseRequestSchema, updateExpenseRequestSchema
ExpenseRequests ==
  { [description |-> "snacks", amount |-> 700, category |-> "food",
     paymentMethod |-> "cash", notes |-> NullNote] }
ExpenseUpdateRequests ==
  { [description |-> "taxi", amount |-> 900, category |-> "other",
     paymentMethod |-> "electronic", notes |-> NullNote] }

AddExpense(u, gameSessionId) ==
  /\ EventCount < MaxEvents
  /\ IF ~HasAccess(u, gameSessionId)
     THEN /\ resp' = Error("addExpense", 404, "Game session not found")
          /\ UNCHANGED expense
     ELSE \E data \in ExpenseRequests :
          /\ expense' = Insert(expense,
               [description |-> data.description, amount |-> data.amount,
                category |-> data.category, paymentMethod |-> data.paymentMethod,
                paidOut |-> FALSE, notes |-> data.notes,
                gameSessionId |-> gameSessionId])
          /\ resp' = Ok("addExpense", [success |-> TRUE])
  /\ UNCHANGED <<user, gameSession, gameSessionMember, playerTransaction, dealerDown, inFlight>>

DeleteExpense(u, row) ==
  /\ IF NotOwned(u, row, expense)
     THEN /\ resp' = Error("deleteExpense", 404, "Expense not found")
          /\ UNCHANGED expense
     ELSE /\ expense' = Delete(expense, row)
          /\ resp' = Ok("deleteExpense", [success |-> TRUE])
  /\ UNCHANGED <<user, gameSession, gameSessionMember, playerTransaction, dealerDown, inFlight>>

UpdateExpense(u, row) ==
  /\ IF NotOwned(u, row, expense)
     THEN /\ resp' = Error("updateExpense", 404, "Expense not found")
          /\ UNCHANGED expense
     ELSE \E data \in ExpenseUpdateRequests :
          /\ expense' = Update(expense, row,
               [row EXCEPT !.description = data.description,
                           !.amount = data.amount,
                           !.category = data.category,
                           !.paymentMethod = data.paymentMethod,
                           !.notes = data.notes])
          /\ resp' = Ok("updateExpense", [success |-> TRUE])
  /\ UNCHANGED <<user, gameSession, gameSessionMember, playerTransaction, dealerDown, inFlight>>

(***************************************************************************)
(* GET /api/game/:sessionId/summary                                        *)
(***************************************************************************)
GetSummary(u, sessionId) ==
  /\ IF ~HasAccess(u, sessionId)
     THEN resp' = Error("summary", 404, "Session not found")
     ELSE resp' = Ok("summary",
            GameSummary(sessionId, gameSession[sessionId],
                        OfSession(playerTransaction, sessionId),
                        OfSession(dealerDown, sessionId),
                        OfSession(expense, sessionId)))
  /\ UNCHANGED <<store, inFlight>>

(***************************************************************************)
(* POST /api/ai/analyze-till                                               *)
(***************************************************************************)
\* the reported count (actualTillAmount) less the figure the ledger predicts
TillDeltas == {0 - Unit, 0, Unit - 1, Unit}

\* a test on the signed difference
immaterialSigned(discrepancyAmount) == discrepancyAmount < Unit

\* a test that also lets a difference of exactly 1.00 through
immaterialLoose(discrepancyAmount) == Abs(discrepancyAmount) <= Unit

\* a test that lets only an exact match through
immaterialExact(discrepancyAmount) == discrepancyAmount = 0

\* Math.abs(discrepancyAmount) < 1
immaterial(discrepancyAmount) == Abs(discrepancyAmount) < Unit

\* a response of analyze-till, with the request it answers and what
\* process.env.OPENAI_API_KEY held when the handler read it (TRUE: a key);
\* aiCalls counts the calls made to the collaborator while serving it, and
\* reply is what the collaborator did with the call
AnalyzeResponse(u, data, status, body, aiCalls) ==
  [op |-> "analyze-till", status |-> status, body |-> body, aiCalls |-> aiCalls,
   reply |-> [kind |-> "none"],
   request |-> [user |-> u, sessionId |-> data.sessionId,
                actualTillAmount |-> data.actualTillAmount,
                OPENAI_API_KEY |-> data.OPENAI_API_KEY]]

AnalysisFailed(details) ==
  [error |-> "Failed to analyze till discrepancy. Please try again.", details |-> details]

\* a key check that lets every request through
unconfiguredNever(data) == FALSE

\* if (!openaiApiKey)
unconfigured(data) == ~data.OPENAI_API_KEY

\* the try block: one call of the collaborator, its reply parsed and
\* normalised; whatever is thrown is caught and answered with a 500
Analysis(reply, discrepancyAmount, expected, actual) ==
  CASE reply.kind = "throws" -> [status |-> 500, body |-> AnalysisFailed("request failed")]
    [] reply.kind = "empty" ->
         [status |-> 500, body |-> AnalysisFailed("No response from OpenAI")]
    [] reply.kind = "unparsable" -> [status |-> 500, body |-> AnalysisFailed("SyntaxError")]
    [] reply.kind = "json" ->
         IF normalizeThrows(reply.value)
         THEN [status |-> 500, body |-> AnalysisFailed("TypeError")]
         ELSE [status |-> 200,
               body |-> normalize(reply.value, discrepancyAmount, expected, actual)]

\* the handler, the collaborator answering with one of replies
AnalyzeTillFrom(u, data, replies) ==
  /\ IF unconfigured(data)
     THEN resp' = AnalyzeResponse(u, data, 500,
                    [error |-> "AI analysis is not configured. Please contact support."], 0)
     ELSE IF ~HasAccess(u, data.sessionId)
     THEN resp' = AnalyzeResponse(u, data, 404, [error |-> "Session not found"], 0)
     ELSE LET pt == OfSession(playerTransaction, data.sessionId)
              dd == OfSession(dealerDown, data.sessionId)
              ex == OfSession(expense, data.sessionId)
              expected == expectedTill(pt, dd, ex)
              discrepancyAmount == data.actualTillAmount - expected
          IN IF immaterial(discrepancyAmount)
             THEN resp' = AnalyzeResponse(u, data, 200,
                    [discrepancyAmount |-> 0,
                     expectedTill |-> expected,
                     actualTill |-> data.actualTillAmount,
                     summary |-> "Your till matches the expected amount. No discrepancy detected.",
                     possibleCauses |-> <<>>,
                     transactionsToReview |-> <<>>,
                     recommendations |->
                       <<"Your records appear to be accurate. Keep up the good work!">>], 0)
             ELSE \* openai.chat.completions.create, once, inside try/catch
                  \E reply \in replies :
                    LET out == Analysis(reply, discrepancyAmount, expected,
                                        data.actualTillAmount)
                    IN resp' = [AnalyzeResponse(u, data, out.status, out.body, 1)
                                  EXCEPT !.reply = reply]
  /\ UNCHANGED <<store, inFlight>>

AnalyzeTill(u, data) == AnalyzeTillFrom(u, data, AiReplies)

\* the counts a caller may report for a session: the figure the ledger
\* predicts, plus or minus a little
ActualTills(sessionId) ==
  IF sessionId \in DOMAIN gameSession
  THEN LET base == expectedTill(OfSession(playerTransaction, sessionId),
                                OfSession(dealerDown, sessionId),
                                OfSession(expense, sessionId))
       IN {base + d : d \in TillDeltas}
  ELSE {0}

(***************************************************************************)
(* /api/game: the life of a session.  POST /new and GET /active make two   *)
(* writes each with an await between them; a request that has made the     *)
(* first is in inFlight until it makes the second.                         *)
(***************************************************************************)
\* the times new Date() yields
Dates == {1, 2}

\* the ids create() can give a new row: those no session has
FreshIds == SessionIds \ DOMAIN gameSession

\* db.gameSession.create({ data: { isActive: true, userId } })
CreateSession(u, id) ==
  [s \in DOMAIN gameSession \cup {id} |->
     IF s = id
     THEN [userId |-> u, isActive |-> TRUE, endedAt |-> NullDate, totalRake |-> 0]
     ELSE gameSession[s]]

\* where: { isActive: true, userId }
ActiveOwned(u) ==
  {s \in DOMAIN gameSession : gameSession[s].isActive /\ gameSession[s].userId = u}

\* where: { userId, gameSession: { isActive: true } }
ActiveJoined(u) ==
  {s \in DOMAIN gameSession :
     /\ gameSession[s].isActive
     /\ [userId |-> u, gameSessionId |-> s] \in gameSessionMember}

\* the session of an answer
SessionJson(id) ==
  [id |-> id, userId |-> gameSession'[id].userId,
   isActive |-> gameSession'[id].isActive, endedAt |-> gameSession'[id].endedAt]

\* POST /new, first write: updateMany({ where: { isActive: true, userId },
\* data: { isActive: false, endedAt: new Date() } })
StartNewGameEndActive(u) ==
  /\ BagCardinality(inFlight) < MaxInFlight
  /\ \E now \in Dates :
       gameSession' = [s \in DOMAIN gameSession |->
                         IF s \in ActiveOwned(u)
                         THEN [gameSession[s] EXCEPT !.isActive = FALSE, !.endedAt = now]
                         ELSE gameSession[s]]
  /\ inFlight' = inFlight (+) SetToBag({[op |-> "new", userId |-> u, completedGames |-> 0]})
  /\ UNCHANGED <<user, gameSessionMember, playerTransaction, dealerDown, expense, resp>>

\* POST /new, second write: create, and the answer
StartNewGameCreate(call) ==
  /\ BagIn(call, inFlight) /\ call.op = "new"
  /\ \E id \in FreshIds :
       /\ gameSession' = CreateSession(call.userId, id)
       /\ resp' = Ok("new", [session |-> SessionJson(id)])
  /\ inFlight' = inFlight (-) SetToBag({call})
  /\ UNCHANGED <<user, gameSessionMember, playerTransaction, dealerDown, expense>>

\* GET /active, the reads: the active session the user owns, else one the
\* user is a member of, and the user's completedGames; the answer when a
\* session was found
GetActiveFind(u) ==
  /\ UNCHANGED store
  /\ IF ActiveOwned(u) # {}
     THEN /\ \E id \in ActiveOwned(u) :
               resp' = Ok("active", [session |-> SessionJson(id),
                                     userCompletedGames |-> user[u].completedGames])
          /\ UNCHANGED inFlight
     ELSE IF ActiveJoined(u) # {}
     THEN /\ \E id \in ActiveJoined(u) :
               resp' = Ok("active", [session |-> SessionJson(id),
                                     userCompletedGames |-> user[u].completedGames])
          /\ UNCHANGED inFlight
     ELSE /\ BagCardinality(inFlight) < MaxInFlight
          /\ inFlight' = inFlight (+) SetToBag({[op |-> "active", userId |-> u,
                                                 completedGames |-> user[u].completedGames]})
          /\ UNCHANGED resp

\* GET /active, the write when no session was found: create, and the answer
GetActiveCreate(call) ==
  /\ BagIn(call, inFlight) /\ call.op = "active"
  /\ \E id \in FreshIds :
       /\ gameSession' = CreateSession(call.userId, id)
       /\ resp' = Ok("active", [session |-> SessionJson(id),
                                userCompletedGames |-> call.completedGames])
  /\ inFlight' = inFlight (-) SetToBag({call})
  /\ UNCHANGED <<user, gameSessionMember, playerTransaction, dealerDown, expense>>

\* the request read by POST /end and its answer
EndGameResponse(u, sessionId, status, body) ==
  [op |-> "end", status |-> status, body |-> body,
   request |-> [user |-> u, sessionId |-> sessionId]]

\* POST /end
EndGame(u, sessionId) ==
  /\ IF \/ sessionId \notin DOMAIN gameSession
        \/ gameSession[sessionId].userId # u
     THEN /\ resp' = EndGameResponse(u, sessionId, 404, [error |-> "Game session not found"])
          /\ UNCHANGED <<user, gameSession>>
     ELSE /\ user[u].completedGames < MaxCompletedGames
          /\ \E now \in Dates :
               gameSession' = [gameSession EXCEPT ![sessionId].isActive = FALSE,
                                                  ![sessionId].endedAt = now]
          /\ user' = [user EXCEPT ![u].completedGames = @ + 1]
          /\ resp' = EndGameResponse(u, sessionId, 200,
                       [success |-> TRUE, session |-> SessionJson(sessionId)])
  /\ UNCHANGED <<gameSessionMember, playerTransaction, dealerDown, expense, inFlight>>

\* a delete that leaves the rows of the session where they are
OnDeleteRestrict(table, sessionId) == table

\* ON DELETE CASCADE: the rows of a table that referenced the deleted session
\* go with it
OnDeleteCascade(table, sessionId) ==
  BagOf(SelectSeq(Rows(table), LAMBDA r : r.gameSessionId # sessionId))

\* DELETE /:sessionId
DeleteGame(u, sessionId) ==
  /\ IF \/ sessionId \notin DOMAIN gameSession
        \/ gameSession[sessionId].userId # u
     THEN /\ resp' = Error("delete", 404, "Game session not found")
          /\ UNCHANGED <<gameSession, gameSessionMember, playerTransaction,
                         dealerDown, expense>>
     ELSE /\ gameSession' = [s \in DOMAIN gameSession \ {sessionId} |-> gameSession[s]]
          /\ gameSessionMember' = {m \in gameSessionMember : m.gameSessionId # sessionId}
          /\ playerTransaction' = OnDeleteCascade(playerTransaction, sessionId)
          /\ dealerDown' = OnDeleteCascade(dealerDown, sessionId)
          /\ expense' = OnDeleteCascade(expense, sessionId)
          /\ resp' = Ok("delete", [success |-> TRUE])
  /\ UNCHANGED <<user, inFlight>>

(***************************************************************************)
(* /api/share                                                              *)
(***************************************************************************)
\* POST /join: the share code sent is that of session sid, or of none
JoinGame(u, sid) ==
  /\ IF sid \notin DOMAIN gameSession
     THEN /\ resp' = Error("join", 404, "Invalid share code")
          /\ UNCHANGED gameSessionMember
     ELSE IF [userId |-> u, gameSessionId |-> sid] \in gameSessionMember
     THEN /\ resp' = Error("join", 400, "You are already a member of this game")
          /\ UNCHANGED gameSessionMember
     ELSE IF gameSession[sid].userId = u
     THEN /\ resp' = Error("join", 400, "You are the owner of this game")
          /\ UNCHANGED gameSessionMember
     ELSE /\ gameSessionMember' =
               gameSessionMember \cup {[userId |-> u, gameSessionId |-> sid]}
          /\ resp' = Ok("join", [success |-> TRUE])
  /\ UNCHANGED <<user, gameSession, playerTransaction, dealerDown, expense, inFlight>>

\* DELETE /member/:userId: removes the member from an active session the
\* caller owns; delete() of a row that is not there throws
RemoveMember(u, memberUserId) ==
  /\ IF ActiveOwned(u) = {}
     THEN /\ resp' = Error("removeMember", 403,
                           "You must be the game owner to remove members")
          /\ UNCHANGED gameSessionMember
     ELSE \E sid \in ActiveOwned(u) :
          IF [userId |-> memberUserId, gameSessionId |-> sid] \notin gameSessionMember
          THEN /\ resp' = Error("removeMember", 500, "Record to delete does not exist.")
               /\ UNCHANGED gameSessionMember
          ELSE /\ gameSessionMember' =
                    gameSessionMember \ {[userId |-> memberUserId, gameSessionId |-> sid]}
               /\ resp' = Ok("removeMember", [success |-> TRUE])
  /\ UNCHANGED <<user, gameSession, playerTransaction, dealerDown, expense, inFlight>>

(***************************************************************************)
(* Requests.                                                               *)
(***************************************************************************)
TxRows == BagToSet(playerTransaction) \cup {NoRow}
DownRows == BagToSet(dealerDown) \cup {NoRow}
ExpenseRows == BagToSet(expense) \cup {NoRow}

\* the server takes a request when it is not serving one
Idle == resp = NoResponse

\* the response is sent and the request is over
Respond ==
  /\ ~Idle
  /\ resp' = NoResponse
  /\ UNCHANGED <<store, inFlight>>

Next ==
  \/ Idle /\ RequireAuth
  \/ Idle /\ \E u \in Users, sid \in SessionIds : AddTransaction(u, sid)
  \/ Idle /\ \E u \in Users, row \in TxRows : DeleteTransaction(u, row)
  \/ Idle /\ \E u \in Users, row \in TxRows : UpdateTransaction(u, row)
  \/ Idle /\ \E u \in Users, row \in TxRows : MarkPaid(u, row)
  \/ Idle /\ \E u \in Users, row \in TxRows : MarkUnpaid(u, row)
  \/ Idle /\ \E u \in Users, sid \in SessionIds : AddDealerDown(u, sid)
  \/ Idle /\ \E u \in Users, row \in DownRows : DeleteDealerDown(u, row)
  \/ Idle /\ \E u \in Users, row \in DownRows : UpdateDealerDown(u, row)
  \/ Idle /\ \E u \in Users, row \in DownRows : PayTips(u, row)
  \/ Idle /\ \E u \in Users, row \in DownRows : UnpayTips(u, row)
  \/ Idle /\ \E u \in Users, row \in DownRows : ClaimRake(u, row)
  \/ Idle /\ \E u \in Users, row \in DownRows : UnclaimRake(u, row)
  \/ Idle /\ \E u \in Users, sid \in SessionIds : ClaimTipsByDealer(u, sid)
  \/ Idle /\ \E u \in Users, sid \in SessionIds : ClaimAllRake(u, sid)
  \/ Idle /\ \E u \in Users, sid \in SessionIds : UpdateTotalRake(u, sid)
  \/ Idle /\ \E u \in Users, sid \in SessionIds : AddExpense(u, sid)
  \/ Idle /\ \E u \in Users, row \in ExpenseRows : DeleteExpense(u, row)
  \/ Idle /\ \E u \in Users, row \in ExpenseRows : UpdateExpense(u, row)
  \/ Idle /\ \E u \in Users, sid \in SessionIds : GetSummary(u, sid)
  \/ Idle /\ \E u \in Users, sid \in SessionIds :
               \E actual \in ActualTills(sid), key \in BOOLEAN :
                 AnalyzeTill(u, [sessionId |-> sid, actualTillAmount |-> actual,
                                OPENAI_API_KEY |-> key])
  \/ Respond

Spec == Init /\ [][Next]_vars

(***************************************************************************)
(* The till analysis beside the handlers that feed it: events are added,   *)
(* credit, tips and rake are flagged, and the till is summarised and       *)
(* analysed.                                                               *)
(***************************************************************************)
NextAnalyze ==
  \/ Idle /\ \E u \in Users, sid \in SessionIds : AddTransaction(u, sid)
  \/ Idle /\ \E u \in Users, row \in TxRows : MarkUnpaid(u, row)
  \/ Idle /\ \E u \in Users, sid \in SessionIds : AddDealerDown(u, sid)
  \/ Idle /\ \E u \in Users, row \in DownRows : PayTips(u, row)
  \/ Idle /\ \E u \in Users, row \in DownRows : ClaimRake(u, row)
  \/ Idle /\ \E u \in Users, sid \in SessionIds : AddExpense(u, sid)
  \/ Idle /\ \E u \in Users, sid \in SessionIds : GetSummary(u, sid)
  \/ Idle /\ \E u \in Users, sid \in SessionIds :
               \E actual \in ActualTills(sid), key \in BOOLEAN :
                 AnalyzeTill(u, [sessionId |-> sid, actualTillAmount |-> actual,
                                OPENAI_API_KEY |-> key])
  \/ Respond

SpecAnalyze == Init /\ [][NextAnalyze]_vars

(***************************************************************************)
(* The normalisation of the collaborator's reply: expenses make the till   *)
(* differ, and the analysis is asked with the collaborator answering any   *)
(* of the JSON replies.                                                    *)
(***************************************************************************)
NextNormalize ==
  \/ Idle /\ \E u \in Users, sid \in SessionIds : AddExpense(u, sid)
  \/ Idle /\ \E u \in Users, sid \in SessionIds :
               \E actual \in ActualTills(sid), key \in BOOLEAN :
                 AnalyzeTillFrom(u, [sessionId |-> sid, actualTillAmount |-> actual,
                                     OPENAI_API_KEY |-> key],
                                 AiReplies \cup JsonReplies)
  \/ Respond

SpecNormalize == Init /\ [][NextNormalize]_vars

(***************************************************************************)
(* The note parsers alone: a ledger holding one cashout, whose notes,      *)
(* amount and payment method are drawn at the start, read by the two       *)
(* handlers that parse notes.                                              *)
(***************************************************************************)
ParseNotes ==
  { NullNote, Note(<<>>), Note(NoteSettle), Note(NoteLegacy), Note(NoteBoth),
    Note(NoteOneDigit), Note(NoteToward), Note(NotePlain) }

ParseRows ==
  { [playerName |-> "alice", type |-> "cashout", amount |-> a, paymentMethod |-> m,
     notes |-> n, isPaid |-> TRUE, gameSessionId |-> "s1"] :
      a \in {30000, 1234}, m \in {"cash", "credit", "electronic"}, n \in ParseNotes }

InitParse ==
  /\ user = NewUsers
  /\ inFlight = NoneInFlight
  /\ gameSession = [sid \in {"s1"} |-> [userId |-> "u1", isActive |-> TRUE, endedAt |-> NullDate,
                                         totalRake |-> 0]]
  /\ gameSessionMember = {[userId |-> "u2", gameSessionId |-> "s1"]}
  /\ playerTransaction \in {SetToBag({t}) : t \in ParseRows}
  /\ dealerDown = EmptyBag
  /\ expense = EmptyBag
  /\ resp = NoResponse

NextParse ==
  \/ Idle /\ \E u \in Users, sid \in SessionIds : GetSummary(u, sid)
  \/ Idle /\ \E u \in Users, sid \in SessionIds :
               \E actual \in ActualTills(sid), key \in BOOLEAN :
                 AnalyzeTill(u, [sessionId |-> sid, actualTillAmount |-> actual,
                                OPENAI_API_KEY |-> key])
  \/ Respond

SpecParse == InitParse /\ [][NextParse]_vars

\* the store before the first request
InitSessions ==
  /\ user = NewUsers
  /\ inFlight = NoneInFlight
  /\ gameSession = << >>
  /\ gameSessionMember = {}
  /\ playerTransaction = EmptyBag
  /\ dealerDown = EmptyBag
  /\ expense = EmptyBag
  /\ resp = NoResponse

\* the users who run games
Hosts == {"u1", "u2"}

\* the game router alone: sessions started, looked up, ended and deleted by
\* requests that interleave
NextSessions ==
  \/ \E u \in Hosts : StartNewGameEndActive(u)
  \/ Idle /\ \E call \in BagToSet(inFlight) : StartNewGameCreate(call)
  \/ Idle /\ \E u \in Hosts : GetActiveFind(u)
  \/ Idle /\ \E call \in BagToSet(inFlight) : GetActiveCreate(call)
  \/ Idle /\ \E u \in Hosts, sid \in SessionIds : EndGame(u, sid)
  \/ Idle /\ \E u \in Hosts, sid \in SessionIds : DeleteGame(u, sid)
  \/ Respond

SpecSessions == InitSessions /\ [][NextSessions]_vars

\* games looked up (and so started) and ended, never restarted or deleted
NextEnds ==
  \/ Idle /\ \E u \in Hosts : GetActiveFind(u)
  \/ Idle /\ \E call \in BagToSet(inFlight) : GetActiveCreate(call)
  \/ Idle /\ \E u \in Hosts, sid \in SessionIds : EndGame(u, sid)
  \/ Respond

SpecEnds == InitSessions /\ [][NextEnds]_vars

\* two games running side by side: u1's, which u2 has joined, and u2's own
InitTwoGames ==
  /\ user = NewUsers
  /\ inFlight = NoneInFlight
  /\ gameSession = [sid \in {"s1", "s2"} |->
                      [userId |-> IF sid = "s1" THEN "u1" ELSE "u2", isActive |-> TRUE,
                       endedAt |-> NullDate, totalRake |-> 0]]
  /\ gameSessionMember = {[userId |-> "u2", gameSessionId |-> "s1"]}
  /\ playerTransaction = EmptyBag
  /\ dealerDown = EmptyBag
  /\ expense = EmptyBag
  /\ resp = NoResponse

\* the rake of the downs claimed and given back, with the summary and the
\* analysis of the till beside it
NextRake ==
  \/ Idle /\ \E u \in Users, sid \in SessionIds : AddTransaction(u, sid)
  \/ Idle /\ \E u \in Users, sid \in SessionIds : AddDealerDown(u, sid)
  \/ Idle /\ \E u \in Users, row \in DownRows : UpdateDealerDown(u, row)
  \/ Idle /\ \E u \in Users, row \in DownRows : PayTips(u, row)
  \/ Idle /\ \E u \in Users, row \in DownRows : ClaimRake(u, row)
  \/ Idle /\ \E u \in Users, row \in DownRows : UnclaimRake(u, row)
  \/ Idle /\ \E u \in Users, sid \in SessionIds : ClaimAllRake(u, sid)
  \/ Idle /\ \E u \in Users, sid \in SessionIds : AddExpense(u, sid)
  \/ Idle /\ \E u \in Users, sid \in SessionIds : GetSummary(u, sid)
  \/ Respond

SpecRake == Init /\ [][NextRake]_vars

\* the creation of events before and after the game is ended
NextEnded ==
  \/ Idle /\ \E u \in Users, sid \in SessionIds : AddTransaction(u, sid)
  \/ Idle /\ \E u \in Users, sid \in SessionIds : AddDealerDown(u, sid)
  \/ Idle /\ \E u \in Users, sid \in SessionIds : AddExpense(u, sid)
  \/ Idle /\ \E u \in Users, sid \in SessionIds : EndGame(u, sid)
  \/ Respond

SpecEnded == Init /\ [][NextEnded]_vars

\* transactions updated with every body, the notes given or left out
NextUpdate ==
  \/ Idle /\ \E u \in Users, sid \in SessionIds : AddTransaction(u, sid)
  \/ Idle /\ \E u \in Users, sid \in SessionIds : AddDealerDown(u, sid)
  \/ Idle /\ \E u \in Users, row \in TxRows : MarkUnpaid(u, row)
  \/ Idle /\ \E u \in Users, row \in TxRows :
               UpdateTransactionFrom(u, row, TxUpdateRequests \cup TxUpdateRequestsOmitting)
  \/ Respond

SpecUpdate == Init /\ [][NextUpdate]_vars

\* claims of tips that overlap each other and the creation of downs
NextClaims ==
  \/ Idle /\ \E u \in Hosts, sid \in SessionIds : AddDealerDown(u, sid)
  \/ Idle /\ \E u \in Hosts, sid \in SessionIds : ClaimTipsFind(u, sid)
  \/ Idle /\ \E call \in BagToSet(inFlight) : ClaimTipsUpdate(call)
  \/ Respond

SpecClaims == InitTwoGames /\ [][NextClaims]_vars

\* the events of the two games, written by the owner of the game, by a
\* member and by a stranger
NextAccess ==
  \/ Idle /\ \E u \in Users, sid \in SessionIds : AddTransaction(u, sid)
  \/ Idle /\ \E u \in Users, row \in TxRows : DeleteTransaction(u, row)
  \/ Idle /\ \E u \in Users, row \in TxRows : UpdateTransaction(u, row)
  \/ Idle /\ \E u \in Users, row \in TxRows : MarkPaid(u, row)
  \/ Idle /\ \E u \in Users, row \in TxRows : MarkUnpaid(u, row)
  \/ Idle /\ \E u \in Users, sid \in SessionIds : AddDealerDown(u, sid)
  \/ Idle /\ \E u \in Users, row \in DownRows : DeleteDealerDown(u, row)
  \/ Idle /\ \E u \in Users, row \in DownRows : UpdateDealerDown(u, row)
  \/ Idle /\ \E u \in Users, row \in DownRows : PayTips(u, row)
  \/ Idle /\ \E u \in Users, row \in DownRows : UnpayTips(u, row)
  \/ Idle /\ \E u \in Users, row \in DownRows : ClaimRake(u, row)
  \/ Idle /\ \E u \in Users, row \in DownRows : UnclaimRake(u, row)
  \/ Idle /\ \E u \in Users, sid \in SessionIds : AddExpense(u, sid)
  \/ Idle /\ \E u \in Users, row \in ExpenseRows : DeleteExpense(u, row)
  \/ Idle /\ \E u \in Users, row \in ExpenseRows : UpdateExpense(u, row)
  \/ Respond

SpecAccess == InitTwoGames /\ [][NextAccess]_vars

\* the dealer downs of the two games and the tips claimed on them
NextDealers ==
  \/ Idle /\ \E u \in Hosts, sid \in SessionIds : AddDealerDown(u, sid)
  \/ Idle /\ \E u \in Hosts, row \in DownRows : UpdateDealerDown(u, row)
  \/ Idle /\ \E u \in Hosts, row \in DownRows : PayTips(u, row)
  \/ Idle /\ \E u \in Hosts, sid \in SessionIds : ClaimTipsByDealer(u, sid)
  \/ Respond

SpecDealers == InitTwoGames /\ [][NextDealers]_vars

\* the two games with their members and events: what is written under a
\* session and what deleting it takes away
NextCascade ==
  \/ Idle /\ \E u \in Users, sid \in SessionIds : DeleteGame(u, sid)
  \/ Idle /\ \E sid \in SessionIds : JoinGame("u3", sid)
  \/ Idle /\ \E u \in Hosts : RemoveMember(u, "u3")
  \/ Idle /\ \E u \in Users, sid \in SessionIds : AddTransaction(u, sid)
  \/ Idle /\ \E u \in Users, row \in TxRows : UpdateTransaction(u, row)
  \/ Idle /\ \E u \in Users, sid \in SessionIds : AddDealerDown(u, sid)
  \/ Idle /\ \E u \in Users, row \in DownRows : UpdateDealerDown(u, row)
  \/ Idle /\ \E u \in Users, sid \in SessionIds : AddExpense(u, sid)
  \/ Idle /\ \E u \in Users, row \in ExpenseRows : UpdateExpense(u, row)
  \/ Respond

SpecCascade == InitTwoGames /\ [][NextCascade]_vars

(***************************************************************************)
(* Properties.  The figures are stated over the tables themselves, as sums *)
(* over the rows of a session, and compared with what the handlers answer. *)
(***************************************************************************)
RECURSIVE SumOver(_, _)
SumOver(S, f) ==
  IF S = {} THEN 0
  ELSE LET x == CHOOSE y \in S : TRUE IN f[x] + SumOver(S \ {x}, f)

\* the sum of V over the rows of table B that belong to session sid and satisfy P
SumWhere(B, sid, P(_), V(_)) ==
  SumOver(BagToSet(B),
          [r \in BagToSet(B) |->
             IF r.gameSessionId = sid /\ P(r) THEN CopiesIn(r, B) * V(r) ELSE 0])

PT(sid) == OfSession(playerTransaction, sid)
DD(sid) == OfSession(dealerDown, sid)
EX(sid) == OfSession(expense, sid)

\* a summary has been answered / an analysis has been answered
IsSummary == resp.op = "summary" /\ resp.status = 200
IsAnalysis == resp.op = "analyze-till" /\ resp.status = 200
SummaryOf == resp.body.session.id
AnalysisOf == resp.request.sessionId

SumCashBuyIns(sid) ==
  SumWhere(playerTransaction, sid,
           LAMBDA r : r.type = "buy-in" /\ r.paymentMethod = "cash", LAMBDA r : r.amount)
SumPaidTips(sid) == SumWhere(dealerDown, sid, LAMBDA r : r.tipsPaid, LAMBDA r : r.tips)
SumClaimedRake(sid) == SumWhere(dealerDown, sid, LAMBDA r : r.rakeClaimed, LAMBDA r : r.rake)
SumRake(sid) == SumWhere(dealerDown, sid, LAMBDA r : TRUE, LAMBDA r : r.rake)
SumExpenses(sid) == SumWhere(expense, sid, LAMBDA r : TRUE, LAMBDA r : r.amount)
SumPaidCreditBuyIns(sid) ==
  SumWhere(playerTransaction, sid,
           LAMBDA r : r.type = "buy-in" /\ r.paymentMethod = "credit" /\ r.isPaid,
           LAMBDA r : r.amount)

\* the credit-settled amount written in the notes of a cashout
CreditSettledIn(r) ==
  IF r.notes.null THEN 0
  ELSE LET legacy == match(r.notes.s, LitCreditSettled, <<>>)
           current == match(r.notes.s, LitPaid, LitCredit)
       IN IF legacy.matched THEN parseFloat(legacy.group)
          ELSE IF current.matched THEN parseFloat(current.group) ELSE 0
SumAutoSettled(sid) ==
  SumWhere(playerTransaction, sid, LAMBDA r : r.type = "cashout", CreditSettledIn)

\* the cash a cashout's notes say was handed over, else its nominal amount
CashReceivedIn(r) ==
  IF r.notes.null THEN r.amount
  ELSE LET current == match(r.notes.s, LitReceived, LitCash)
           legacy == match(r.notes.s, LitCashPaid, LitParen)
       IN IF current.matched THEN parseFloat(current.group)
          ELSE IF legacy.matched THEN parseFloat(legacy.group) ELSE r.amount
SumCashReceivedAnyMethod(sid) ==
  SumWhere(playerTransaction, sid, LAMBDA r : r.type = "cashout", CashReceivedIn)
SumCashReceived(sid) ==
  SumWhere(playerTransaction, sid,
           LAMBDA r : r.type = "cashout" /\ r.paymentMethod = "cash", CashReceivedIn)

\* C1: every summary's tillBalance is cash buy-ins (cash-method buy-ins only)
\* plus manually paid credit, minus cash-equivalent cash cashouts, minus the
\* tips of the downs whose tips were paid, minus every expense.
C1_TillBalance ==
  IsSummary =>
    resp.body.tillBalance =
      SumCashBuyIns(SummaryOf) + manuallyPaidCredit(PT(SummaryOf))
        - cashCashouts(PT(SummaryOf)) - SumPaidTips(SummaryOf) - SumExpenses(SummaryOf)

\* a summary of a cash buy-in of 500 and a down whose tips of 20 were paid
C1_Witness ==
  /\ IsSummary
  /\ SumCashBuyIns(SummaryOf) = 50000
  /\ SumPaidTips(SummaryOf) = 2000
  /\ resp.body.tillBalance = 48000

\* C2 (as claimed): the expectedTill an analysis reports is the tillBalance the
\* summary reports for the same events.
C2_SameTill ==
  IsAnalysis =>
    resp.body.expectedTill = tillBalance(PT(AnalysisOf), DD(AnalysisOf), EX(AnalysisOf))

\* the zero-discrepancy result
ZeroDiscrepancy ==
  /\ resp.status = 200
  /\ resp.body.discrepancyAmount = 0
  /\ resp.body.possibleCauses = <<>>
  /\ resp.body.transactionsToReview = <<>>
  /\ Len(resp.body.recommendations) = 1
  /\ resp.aiCalls = 0

\* an analysis was asked of a session its caller may read, with a count less
\* than 1.00 away from the expected till
ImmaterialRequest ==
  /\ resp.op = "analyze-till"
  /\ HasAccess(resp.request.user, resp.request.sessionId)
  /\ Abs(resp.request.actualTillAmount
         - expectedTill(PT(AnalysisOf), DD(AnalysisOf), EX(AnalysisOf))) < Unit

\* C3 (as claimed): an immaterial discrepancy on an accessible session always
\* gets the zero-discrepancy result, without a call to the collaborator.
C3_ImmaterialAlwaysZero == ImmaterialRequest => ZeroDiscrepancy

\* C3: when the collaborator's credentials are configured, an immaterial
\* discrepancy on an accessible session gets the zero-discrepancy result and
\* the collaborator is not called; without credentials the answer is the
\* configuration error, and the collaborator is not called either.
C3_ImmaterialZeroWhenConfigured ==
  ImmaterialRequest =>
    IF resp.request.OPENAI_API_KEY THEN ZeroDiscrepancy
    ELSE resp.status = 500 /\ resp.aiCalls = 0

\* a count 0.99 off the expected till, answered with the zero-discrepancy result
C3_Witness ==
  /\ ImmaterialRequest
  /\ resp.request.OPENAI_API_KEY
  /\ resp.request.actualTillAmount - resp.body.expectedTill = Unit - 1
  /\ ZeroDiscrepancy

PlayersOf(sid) ==
  {r.playerName : r \in {x \in BagToSet(playerTransaction) : x.gameSessionId = sid}}

OwedBy(sid, p) ==
  SumWhere(playerTransaction, sid,
           LAMBDA r : r.playerName = p /\ r.paymentMethod = "credit"
                      /\ r.type = "buy-in" /\ ~r.isPaid,
           LAMBDA r : r.amount)
  - SumWhere(playerTransaction, sid,
             LAMBDA r : r.playerName = p /\ r.paymentMethod = "credit"
                        /\ r.type = "cashout",
             LAMBDA r : r.amount)

\* C4: every summary's creditBalance is the sum over player names of
\* max(0, the player's unpaid credit buy-ins minus the player's credit
\* cashouts), and so is never negative.
C4_CreditBalance ==
  IsSummary =>
    /\ resp.body.creditBalance =
         SumOver(PlayersOf(SummaryOf),
                 [p \in PlayersOf(SummaryOf) |-> Max(0, OwedBy(SummaryOf, p))])
    /\ resp.body.creditBalance >= 0

\* one player owes 500 while another has cashed out 300 on credit: 500 is owed
C4_Witness ==
  /\ IsSummary
  /\ OwedBy(SummaryOf, "alice") = 50000
  /\ OwedBy(SummaryOf, "bob") = 0 - 30000
  /\ resp.body.creditBalance = 50000

\* the ledger of the example: an unpaid credit buy-in of 500 and a cashout of
\* 300 by the same player, with the settlement written in the notes
SettlementExample(method, paid) ==
  SetToBag({ [playerName |-> "alice", type |-> "buy-in", amount |-> 50000,
              paymentMethod |-> "credit", notes |-> NullNote, isPaid |-> FALSE,
              gameSessionId |-> "s1"],
             [playerName |-> "alice", type |-> "cashout", amount |-> 30000,
              paymentMethod |-> method, notes |-> Note(NoteSettle), isPaid |-> paid,
              gameSessionId |-> "s1"] })

PaymentMethods == {"cash", "credit", "electronic"}

C6_TotalRake ==
  IsSummary =>
    resp.body.totalRake =
      IF gameSession[SummaryOf].totalRake > 0 THEN gameSession[SummaryOf].totalRake
      ELSE SumRake(SummaryOf)

\* a rake of 40 entered for the session beside a down with a rake of 10
C6_Witness ==
  /\ IsSummary
  /\ gameSession[SummaryOf].totalRake = 4000
  /\ SumRake(SummaryOf) = 1000
  /\ resp.body.totalRake = 4000

NetProfitNow(sid) == netProfit(gameSession[sid], DD(sid), EX(sid))
NetProfitNext(sid) ==
  netProfit(gameSession'[sid], OfSession(dealerDown', sid), OfSession(expense', sid))

\* the rake recorded on the downs, whoever dealt them and whatever their tips
RakeOf(B) ==
  LET rows == Rows(B)
  IN BagOf([i \in DOMAIN rows |->
              [gameSessionId |-> rows[i].gameSessionId, rake |-> rows[i].rake]])

\* a step that changes transactions or the tips of downs, and neither the
\* expenses nor the rake of the session or of its downs
TouchesPlayersOrTips ==
  /\ playerTransaction' # playerTransaction \/ dealerDown' # dealerDown
  /\ expense' = expense
  /\ gameSession' = gameSession
  /\ RakeOf(dealerDown') = RakeOf(dealerDown)

\* C7: in every summary netProfit = totalRake - totalExpenses, and no step
\* that adds, changes or removes buy-ins, cashouts or tips (marking tips paid
\* included) changes the netProfit of any session.
C7_NetProfit ==
  /\ [](IsSummary => resp.body.netProfit = resp.body.totalRake - resp.body.totalExpenses)
  /\ [][TouchesPlayersOrTips =>
          \A sid \in DOMAIN gameSession : NetProfitNext(sid) = NetProfitNow(sid)]_vars

\* a summary of a session with a buy-in and a down whose tips were paid
C7_Witness ==
  /\ IsSummary
  /\ resp.body.totalBuyIns > 0
  /\ SumPaidTips(SummaryOf) > 0
  /\ resp.body.netProfit = 1000

NoEvents(sid) == PT(sid) = <<>> /\ DD(sid) = <<>> /\ EX(sid) = <<>>

\* C8 (as claimed): the summary of a session without events reports 0 for
\* tillBalance, netProfit, creditBalance and playerCount.
C8_AllZero ==
  (IsSummary /\ NoEvents(SummaryOf)) =>
    /\ resp.body.tillBalance = 0
    /\ resp.body.netProfit = 0
    /\ resp.body.creditBalance = 0
    /\ resp.body.playerCount = 0

\* C8: the summary of a session without events reports 0 for tillBalance,
\* creditBalance and playerCount, and the session's entered totalRake (0 when
\* none was entered) for netProfit.
C8_ZeroButRake ==
  (IsSummary /\ NoEvents(SummaryOf)) =>
    /\ resp.body.tillBalance = 0
    /\ resp.body.creditBalance = 0
    /\ resp.body.playerCount = 0
    /\ resp.body.netProfit = gameSession[SummaryOf].totalRake

\* a summary of a session without events for which a rake of 40 was entered
C8_Witness ==
  /\ IsSummary
  /\ NoEvents(SummaryOf)
  /\ gameSession[SummaryOf].totalRake = 4000
  /\ resp.body.netProfit = 4000

SumManuallyPaid(sid) == Max(0, SumPaidCreditBuyIns(sid) - SumAutoSettled(sid))

C10_EveryCashout ==
  /\ IsSummary => cashCashouts(PT(SummaryOf)) = SumCashReceivedAnyMethod(SummaryOf)
  /\ IsAnalysis => aiCashCashouts(PT(AnalysisOf)) = SumCashReceivedAnyMethod(AnalysisOf)

\* C10: every cash-method cashout takes out of the till the amount its notes
\* give as received (the current format before the legacy one), or its
\* nominal amount when the notes are absent, empty or match neither format;
\* a cashout of another payment method takes nothing out; both handlers
\* answer whatever the notes are.
C10_CashCashouts ==
  /\ IsSummary =>
       /\ cashCashouts(PT(SummaryOf)) = SumCashReceived(SummaryOf)
       /\ resp.body.tillBalance =
            SumCashBuyIns(SummaryOf) + manuallyPaidCredit(PT(SummaryOf))
              - SumCashReceived(SummaryOf) - SumPaidTips(SummaryOf)
              - SumExpenses(SummaryOf)
  /\ IsAnalysis =>
       /\ aiCashCashouts(PT(AnalysisOf)) = SumCashReceived(AnalysisOf)
       /\ resp.body.expectedTill =
            SumCashBuyIns(AnalysisOf) + aiManuallyPaidCredit(PT(AnalysisOf))
              - SumCashReceived(AnalysisOf) - SumPaidTips(AnalysisOf)
              - SumClaimedRake(AnalysisOf) - SumExpenses(AnalysisOf)

\* a cash cashout whose notes carry both formats: the current one decides
C10_Witness ==
  /\ IsSummary
  /\ \E t \in BagToSet(playerTransaction) :
       /\ t.paymentMethod = "cash"
       /\ t.notes = Note(NoteBoth)
       /\ match(t.notes.s, LitReceived, LitCash).matched
       /\ match(t.notes.s, LitCashPaid, LitParen).matched
  /\ resp.body.tillBalance = 0 - 100

\* the collaborator was called and its reply parsed / and normalised
ParsedReply == resp.op = "analyze-till" /\ resp.reply.kind = "json"
IsNormalized == ParsedReply /\ resp.status = 200
\* the lists of the reply as the normalisation reads them
CausesIn == ListOrEmpty(Get(resp.reply.value, "possibleCauses")).v
ReviewsIn == ListOrEmpty(Get(resp.reply.value, "transactionsToReview")).v
Missing(key) == Get(resp.reply.value, key).t = "undefined"

\* the types AnalyzeTillResponse requires
TypedCause(c) ==
  /\ c.description \in STRING
  /\ c.likelihood \in Likelihoods
  /\ c.amount.t \in {"number", "undefined"}
  /\ \/ c.transactionIds.t = "undefined"
     \/ /\ c.transactionIds.t = "array"
        /\ \A i \in DOMAIN c.transactionIds.v : c.transactionIds.v[i].t = "string"
TypedReview(t) ==
  /\ t.id \in STRING /\ t.playerName \in STRING /\ t.type \in STRING
  /\ t.paymentMethod \in STRING /\ t.reason \in STRING
  /\ t.amount.t = "number"
  /\ t.notes.t \in {"string", "null"}

\* C11 (as claimed): whatever JSON the collaborator sends, the analysis of a
\* material discrepancy succeeds and every field of the answer has the type
\* AnalyzeTillResponse requires.
C11_AlwaysTyped ==
  ParsedReply =>
    /\ resp.status = 200
    /\ resp.body.summary \in STRING
    /\ \A i \in DOMAIN resp.body.possibleCauses : TypedCause(resp.body.possibleCauses[i])
    /\ \A i \in DOMAIN resp.body.transactionsToReview :
         TypedReview(resp.body.transactionsToReview[i])
    /\ \A i \in DOMAIN resp.body.recommendations : resp.body.recommendations[i] \in STRING

\* C12 (as claimed): in a normalised answer an amount the collaborator left
\* out or sent as a non-number is absent, for causes and review transactions.
C12_AbsentNeverZero ==
  IsNormalized =>
    /\ \A i \in DOMAIN CausesIn :
         Get(CausesIn[i], "amount").t # "number" =>
           resp.body.possibleCauses[i].amount.t = "undefined"
    /\ \A i \in DOMAIN ReviewsIn :
         Get(ReviewsIn[i], "amount").t # "number" =>
           resp.body.transactionsToReview[i].amount.t = "undefined"

\* C12: in a normalised answer a cause's amount that was left out or is no
\* number is absent, a review transaction's such amount is the number 0, and
\* an amount sent as a number is kept.
C12_AbsentForCausesZeroForReviews ==
  IsNormalized =>
    /\ \A i \in DOMAIN CausesIn :
         LET a == Get(CausesIn[i], "amount")
         IN IF a.t = "number" THEN resp.body.possibleCauses[i].amount = a
            ELSE resp.body.possibleCauses[i].amount.t = "undefined"
    /\ \A i \in DOMAIN ReviewsIn :
         LET a == Get(ReviewsIn[i], "amount")
         IN IF a.t = "number" THEN resp.body.transactionsToReview[i].amount = a
            ELSE /\ resp.body.transactionsToReview[i].amount.t = "number"
                 /\ resp.body.transactionsToReview[i].amount.v = 0

\* a reply whose cause and whose first review transaction carry "12" as amount
C12_Witness ==
  /\ IsNormalized
  /\ Len(CausesIn) = 1 /\ Get(CausesIn[1], "amount").t = "string"
  /\ Len(ReviewsIn) = 2 /\ Get(ReviewsIn[1], "amount").t = "string"
  /\ resp.body.possibleCauses[1].amount.t = "undefined"
  /\ resp.body.transactionsToReview[1].amount.v = 0
  /\ resp.body.transactionsToReview[2].amount.v = 300

\* C13 (as claimed): in a normalised answer each of the three lists that the
\* reply lacks is empty.
C13_MissingListsEmpty ==
  IsNormalized =>
    /\ Missing("possibleCauses") => resp.body.possibleCauses = <<>>
    /\ Missing("transactionsToReview") => resp.body.transactionsToReview = <<>>
    /\ Missing("recommendations") => resp.body.recommendations = <<>>

\* C13: in a normalised answer possibleCauses and transactionsToReview are
\* empty when the reply lacks them, recommendations is the two stock
\* recommendations when the reply lacks it (or it is no array), and a list
\* the reply gives, empty or not, keeps its length.
C13_MissingRecommendationsDefault ==
  IsNormalized =>
    /\ Missing("possibleCauses") => resp.body.possibleCauses = <<>>
    /\ Missing("transactionsToReview") => resp.body.transactionsToReview = <<>>
    /\ Get(resp.reply.value, "recommendations").t # "array" =>
         /\ Len(resp.body.recommendations) = 2
         /\ resp.body.recommendations[1] = "Review all transactions for accuracy"
         /\ resp.body.recommendations[2] = "Double-check cash counts"
    /\ \A key \in {"possibleCauses", "transactionsToReview", "recommendations"} :
         Get(resp.reply.value, key).t = "array" =>
           Len(resp.body[key]) = Len(Get(resp.reply.value, key).v)

\* a reply with a summary and none of the three lists
C13_Witness ==
  /\ IsNormalized
  /\ resp.reply.value.t = "object"
  /\ Missing("possibleCauses") /\ Missing("transactionsToReview")
  /\ Missing("recommendations")
  /\ resp.body.possibleCauses = <<>>
  /\ Len(resp.body.recommendations) = 2

ConfigurationError ==
  /\ resp.status = 500
  /\ DOMAIN resp.body = {"error"}
  /\ resp.body.error = "AI analysis is not configured. Please contact support."

\* C14: an analysis asked while no key is configured is answered with the
\* configuration error and nothing else, and the collaborator is not called.
C14_Unconfigured ==
  (resp.op = "analyze-till" /\ ~resp.request.OPENAI_API_KEY) =>
    /\ ConfigurationError
    /\ resp.aiCalls = 0
    /\ resp.reply.kind = "none"

\* without a key, a count 1.00 over the till of a session with events, asked
\* by its owner
C14_Witness ==
  /\ resp.op = "analyze-till"
  /\ ~resp.request.OPENAI_API_KEY
  /\ HasAccess(resp.request.user, resp.request.sessionId)
  /\ PT(resp.request.sessionId) # <<>>
  /\ resp.request.actualTillAmount
       - expectedTill(PT(AnalysisOf), DD(AnalysisOf), EX(AnalysisOf)) = Unit
  /\ ConfigurationError

\* an analysis was asked with a key, of a session its caller may read, with
\* a count at least 1.00 away from the expected till
MaterialRequest ==
  /\ resp.op = "analyze-till"
  /\ resp.request.OPENAI_API_KEY
  /\ HasAccess(resp.request.user, resp.request.sessionId)
  /\ Abs(resp.request.actualTillAmount
         - expectedTill(PT(AnalysisOf), DD(AnalysisOf), EX(AnalysisOf))) >= Unit

\* C15: a material discrepancy with a key configured costs exactly one call
\* of the collaborator; when the call fails, brings no content or brings
\* content that does not parse, the answer is the analysis error alone.
C15_OneCall ==
  MaterialRequest =>
    /\ resp.aiCalls = 1
    /\ resp.reply.kind # "none"
    /\ resp.reply.kind \in {"throws", "empty", "unparsable"} =>
         /\ resp.status = 500
         /\ DOMAIN resp.body = {"error", "details"}
         /\ resp.body.error = "Failed to analyze till discrepancy. Please try again."

\* a material discrepancy answered by content that does not parse
C15_Witness ==
  /\ MaterialRequest
  /\ resp.reply.kind = "unparsable"
  /\ resp.aiCalls = 1
  /\ resp.status = 500

\* a step that answers a claim-tips-by-dealer request
ClaimAnswered == resp.op = "none" /\ resp'.op = "claim-tips-by-dealer"
\* row d is an unpaid down of the dealer and the session request q names
Named(q, d) ==
  /\ d.gameSessionId = q.gameSessionId
  /\ d.dealerName = q.dealerName
  /\ ~d.tipsPaid
\* the tips / the number of the rows request q names, in the table as it is
\* when the request arrives
NamedTips(q) ==
  SumWhere(dealerDown, q.gameSessionId, LAMBDA d : Named(q, d), LAMBDA d : d.tips)
NamedCount(q) ==
  SumWhere(dealerDown, q.gameSessionId, LAMBDA d : Named(q, d), LAMBDA d : 1)

\* C16: the answer to a claim-tips-by-dealer request has totalTipsClaimed =
\* the tips of the named dealer's unpaid downs in the session, dealerPayout =
\* totalTipsClaimed * percentage / 100 and ownerCut = totalTipsClaimed -
\* dealerPayout; the two add up to totalTipsClaimed and lie between 0 and it.
C16_Split ==
  [][ClaimAnswered =>
       LET q == resp'.request
           b == resp'.body
       IN /\ b.totalTipsClaimed = NamedTips(q)
          /\ 100 * b.dealerPayout = b.totalTipsClaimed * q.percentage
          /\ b.ownerCut = b.totalTipsClaimed - b.dealerPayout
          /\ b.dealerPayout + b.ownerCut = b.totalTipsClaimed
          /\ b.dealerPayout >= 0 /\ b.dealerPayout <= b.totalTipsClaimed
          /\ b.ownerCut >= 0 /\ b.ownerCut <= b.totalTipsClaimed]_vars

\* two downs claimed at 70 percent
C16_Witness ==
  /\ resp.op = "claim-tips-by-dealer"
  /\ resp.request.percentage = 70
  /\ resp.body.updatedCount = 2
  /\ resp.body.totalTipsClaimed > 0
  /\ 10 * resp.body.dealerPayout = 7 * resp.body.totalTipsClaimed
  /\ 10 * resp.body.ownerCut = 3 * resp.body.totalTipsClaimed

\* C17: a claim-tips-by-dealer request that is answered turns tipsPaid on in
\* every unpaid down of the named dealer in the session and leaves every
\* other down as it is; updatedCount is the number of downs turned; after it
\* the dealer has no unpaid down in the session, and a claim that finds none
\* answers updatedCount 0 and zero totals and leaves the table as it is.
C17_Flips ==
  [][ClaimAnswered =>
       LET q == resp'.request
           b == resp'.body
           Unpaid(r) == [r EXCEPT !.tipsPaid = FALSE]
       IN /\ b.updatedCount = NamedCount(q)
          /\ \A r \in BagToSet(dealerDown) \cup BagToSet(dealerDown') :
               CopiesIn(r, dealerDown') =
                 (IF Named(q, r) THEN 0 ELSE CopiesIn(r, dealerDown))
                 + (IF r.tipsPaid /\ Named(q, Unpaid(r))
                    THEN CopiesIn(Unpaid(r), dealerDown) ELSE 0)
          /\ \A r \in BagToSet(dealerDown') : ~Named(q, r)
          /\ NamedCount(q) = 0 =>
               /\ b = [updatedCount |-> 0, totalTipsClaimed |-> 0,
                       ownerCut |-> 0, dealerPayout |-> 0]
               /\ dealerDown' = dealerDown]_vars

\* one down turned, while an unpaid down of a dealer of the same name stays
\* unpaid in the other game
C17_Witness ==
  /\ resp.op = "claim-tips-by-dealer"
  /\ resp.body.updatedCount = 1
  /\ \E d \in BagToSet(dealerDown) :
       /\ d.dealerName = resp.request.dealerName
       /\ d.gameSessionId # resp.request.gameSessionId
       /\ ~d.tipsPaid
  /\ \E d \in BagToSet(dealerDown) :
       /\ d.dealerName = resp.request.dealerName
       /\ d.gameSessionId = resp.request.gameSessionId
       /\ d.tipsPaid

\* C18 (as claimed): a user owns at most one active game session, however
\* the /new and /active requests of the user interleave.
C18_OneActive ==
  \A u \in Users : Cardinality(ActiveOwned(u)) <= 1

\* the sessions user u owns that have ended
EndedOf(u) ==
  {s \in DOMAIN gameSession : gameSession[s].userId = u /\ ~gameSession[s].isActive}

\* C19 (as claimed): where sessions end by POST /end only and none is
\* deleted, the completedGames of a user is the number of the user's sessions
\* that have ended, however many end requests each of them got.
C19_CountsDistinct ==
  \A u \in Users : user[u].completedGames = Cardinality(EndedOf(u))

\* the rows of table B under session sid
CountOf(B, sid) == SumWhere(B, sid, LAMBDA r : TRUE, LAMBDA r : 1)
\* a step takes rows of B from under one session and puts rows under another
Moves(B, Bnext) ==
  \E a \in SessionIds, b \in SessionIds :
    /\ a # b
    /\ CountOf(Bnext, a) < CountOf(B, a)
    /\ CountOf(Bnext, b) > CountOf(B, b)
\* every child row has its session
Referenced ==
  /\ \A r \in BagToSet(playerTransaction) : r.gameSessionId \in DOMAIN gameSession
  /\ \A r \in BagToSet(dealerDown) : r.gameSessionId \in DOMAIN gameSession
  /\ \A r \in BagToSet(expense) : r.gameSessionId \in DOMAIN gameSession
  /\ \A m \in gameSessionMember : m.gameSessionId \in DOMAIN gameSession

\* C20: every transaction, dealer down, expense and membership references a
\* session that exists, so deleting a session leaves none of its children
\* behind; and no step takes events from one session to another.
C20_Children ==
  /\ []Referenced
  /\ [][/\ ~Moves(playerTransaction, playerTransaction')
        /\ ~Moves(dealerDown, dealerDown')
        /\ ~Moves(expense, expense')]_vars

\* a session has just been deleted, its member with it, while the other
\* game keeps its events and the member who joined it
C20_Witness ==
  /\ resp.op = "delete" /\ resp.status = 200
  /\ DOMAIN gameSession = {"s2"}
  /\ gameSessionMember = {[userId |-> "u3", gameSessionId |-> "s2"]}
  /\ EventCount = MaxEvents

\* user u owns session sid / has joined it
IsOwner(u, sid) == sid \in DOMAIN gameSession /\ gameSession[sid].userId = u
IsMember(u, sid) == [userId |-> u, gameSessionId |-> sid] \in gameSessionMember
\* the step serves a create request of user u for session sid / a request of
\* user u to update, delete or flag the event row
CreateBy(u, sid) ==
  AddTransaction(u, sid) \/ AddDealerDown(u, sid) \/ AddExpense(u, sid)
WriteBy(u, row) ==
  \/ /\ row \in TxRows
     /\ \/ DeleteTransaction(u, row) \/ UpdateTransaction(u, row)
        \/ MarkPaid(u, row) \/ MarkUnpaid(u, row)
  \/ /\ row \in DownRows
     /\ \/ DeleteDealerDown(u, row) \/ UpdateDealerDown(u, row)
        \/ PayTips(u, row) \/ UnpayTips(u, row)
        \/ ClaimRake(u, row) \/ UnclaimRake(u, row)
  \/ /\ row \in ExpenseRows
     /\ DeleteExpense(u, row) \/ UpdateExpense(u, row)

\* C21: a create request that succeeds comes from the owner or a member of
\* the session; a request to update, delete or flag an event that succeeds
\* comes from the owner of the event's session; a request answered with an
\* error leaves the store as it was.
C21_Access ==
  [][/\ resp'.status = 200 =>
          /\ \A u \in Users, sid \in SessionIds :
               CreateBy(u, sid) => (IsOwner(u, sid) \/ IsMember(u, sid))
          /\ \A u \in Users, row \in TxRows \cup DownRows \cup ExpenseRows :
               WriteBy(u, row) => (row # NoRow /\ IsOwner(u, row.gameSessionId))
     /\ resp'.status \notin {0, 200} => UNCHANGED store]_vars

\* a transaction has just been deleted while u2's game, which u1 may not
\* write, holds an expense
C21_Witness ==
  /\ resp.op = "deleteTransaction" /\ resp.status = 200
  /\ \E r \in BagToSet(expense) : r.gameSessionId = "s2"

\* user u is neither the owner nor a member of the existing session sid
Stranger(u, sid) == sid \in DOMAIN gameSession /\ ~IsOwner(u, sid) /\ ~IsMember(u, sid)
\* the ids no session has
Absent == SessionIds \ DOMAIN gameSession

\* C22 (as claimed): what a stranger to an existing session or event is
\* answered is what the same request is answered for an id that does not
\* exist: a step that serves the one is a step that serves the other.
C22_Indistinguishable ==
  [][/\ \A u \in Users, sid \in DOMAIN gameSession, ghost \in Absent :
          Stranger(u, sid) =>
            /\ AddTransaction(u, sid) => AddTransaction(u, ghost)
            /\ AddDealerDown(u, sid) => AddDealerDown(u, ghost)
            /\ AddExpense(u, sid) => AddExpense(u, ghost)
            /\ GetSummary(u, sid) => GetSummary(u, ghost)
            /\ UpdateTotalRake(u, sid) => UpdateTotalRake(u, ghost)
            /\ ClaimAllRake(u, sid) => ClaimAllRake(u, ghost)
            /\ ClaimTipsByDealer(u, sid) => ClaimTipsByDealer(u, ghost)
     /\ \A u \in Users, row \in (TxRows \cup DownRows \cup ExpenseRows) \ {NoRow} :
          Stranger(u, row.gameSessionId) => (WriteBy(u, row) => WriteBy(u, NoRow))]_vars

\* the step creates the transaction row t
Created(t) ==
  /\ resp.op = "none" /\ resp'.op = "addTransaction"
  /\ playerTransaction' = playerTransaction (+) SetToBag({t})
\* what the credit map holds as bought in on credit by player p, unpaid
BoughtOnCredit(pt, p) ==
  IF p \in DOMAIN playerCreditMap(pt) THEN playerCreditMap(pt)[p].buyIns ELSE 0

\* C23 (as claimed): the creation of a credit buy-in leaves the tillBalance
\* of its session as it was and adds its amount to what the player has
\* bought in on credit and not paid.
C23_CreditIsUnpaid ==
  [][\A t \in BagToSet(playerTransaction') :
       (Created(t) /\ t.type = "buy-in" /\ t.paymentMethod = "credit") =>
         LET sid == t.gameSessionId
             before == OfSession(playerTransaction, sid)
             after == OfSession(playerTransaction', sid)
         IN /\ tillBalance(after, DD(sid), EX(sid))
                 = tillBalance(before, DD(sid), EX(sid))
            /\ BoughtOnCredit(after, t.playerName)
                 = BoughtOnCredit(before, t.playerName) + t.amount]_vars

\* the rake of the claimed downs of session sid in the dealer-down table B
ClaimedRakeIn(B, sid) == SumWhere(B, sid, LAMBDA d : d.rakeClaimed, LAMBDA d : d.rake)
\* a step that answers a request to claim or unclaim rake
RakeFlagged ==
  resp.op = "none" /\ resp'.op \in {"claim-rake", "unclaim-rake", "claim-all-rake"}
\* the summary of session sid / the till its analysis expects, were the
\* dealer-down table B
SummaryWith(B, sid) ==
  GameSummary(sid, gameSession[sid], PT(sid), OfSession(B, sid), EX(sid))
ExpectedTillWith(B, sid) == expectedTill(PT(sid), OfSession(B, sid), EX(sid))

PaidTipsIn(B, sid) == SumWhere(B, sid, LAMBDA d : d.tipsPaid, LAMBDA d : d.tips)

\* C25 (as claimed): however claims and creations of downs interleave, the
\* totalTipsClaimed a claim answers is the tips of the downs that claim
\* turned paid, so that no down's tips are claimed twice, and its
\* updatedCount is the number of downs whose tips it summed.
C25_ClaimedOnce ==
  [][ClaimAnswered =>
       LET sid == resp'.request.gameSessionId
       IN /\ resp'.body.totalTipsClaimed
               = PaidTipsIn(dealerDown', sid) - PaidTipsIn(dealerDown, sid)
          /\ \A call \in BagToSet(inFlight) :
               inFlight' = inFlight (-) SetToBag({call}) =>
                 resp'.body.updatedCount = call.unpaidDowns]_vars

\* the rows of session sid in the table B
EventsIn(B, sid) == SumWhere(B, sid, LAMBDA r : TRUE, LAMBDA r : 1)

\* C26 (as claimed): once a session is ended, no step adds a player
\* transaction, a dealer down or an expense to it: a create addressed to it
\* is rejected, and its events and summary figures stay as they were.
C26_EndedIsClosed ==
  [][\A sid \in DOMAIN gameSession :
       ~gameSession[sid].isActive =>
         /\ EventsIn(playerTransaction', sid) = EventsIn(playerTransaction, sid)
         /\ EventsIn(dealerDown', sid) = EventsIn(dealerDown, sid)
         /\ EventsIn(expense', sid) = EventsIn(expense, sid)
         /\ (resp'.op \in {"addTransaction", "addDealerDown", "addExpense"}
               => resp'.status # 200)]_vars

\* the flag each single-event flag write names, and the value it gives it
FlagWrites ==
  ("markPaid" :> [flag |-> "isPaid", value |-> TRUE])
  @@ ("markUnpaid" :> [flag |-> "isPaid", value |-> FALSE])
  @@ ("pay" :> [flag |-> "tipsPaid", value |-> TRUE])
  @@ ("unpay" :> [flag |-> "tipsPaid", value |-> FALSE])
  @@ ("claim-rake" :> [flag |-> "rakeClaimed", value |-> TRUE])
  @@ ("unclaim-rake" :> [flag |-> "rakeClaimed", value |-> FALSE])

\* table B became B2 by one row of it taking the value of one flag, every
\* other field of the row and every other row as before
OneFlagSet(B, B2, w) ==
  \E row \in BagToSet(B), new \in BagToSet(B2) :
    /\ new[w.flag] = w.value
    /\ \A f \in DOMAIN row \ {w.flag} : new[f] = row[f]
    /\ B2 (-) SetToBag({new}) = B (-) SetToBag({row})
    /\ row[w.flag] = w.value => B2 = B

\* C27: a successful mark-paid, mark-unpaid, pay, unpay, claim-rake or
\* unclaim-rake sets the flag it names on one event and changes nothing else
\* in the store; on an event whose flag already has the value it changes
\* nothing at all, so a second application equals the first.
C27_FlagWrites ==
  [][(resp'.status = 200 /\ resp'.op \in DOMAIN FlagWrites) =>
       LET w == FlagWrites[resp'.op]
       IN /\ UNCHANGED <<user, gameSession, gameSessionMember, expense>>
          /\ IF w.flag = "isPaid"
             THEN /\ OneFlagSet(playerTransaction, playerTransaction', w)
                  /\ UNCHANGED dealerDown
             ELSE /\ OneFlagSet(dealerDown, dealerDown', w)
                  /\ UNCHANGED playerTransaction]_vars

C27_Witness ==
  /\ resp.op = "markUnpaid" /\ resp.status = 200
  /\ \E r \in BagToSet(playerTransaction) : ~r.isPaid
  /\ \E r \in BagToSet(playerTransaction) : r.isPaid

\* what the count of a successful analysis is away from the expected till
\* of the events of its session
AnalysedDifference ==
  resp.request.actualTillAmount
    - expectedTill(PT(AnalysisOf), DD(AnalysisOf), EX(AnalysisOf))

SuccessfulAnalysis == resp.op = "analyze-till" /\ resp.status = 200

\* C28 (as claimed): a successful analysis is of a material discrepancy (the
\* collaborator was asked) exactly when the count is 1.00 or more away from
\* the expected till, above or below, and it reports a discrepancyAmount
\* that is its actualTill minus its expectedTill.
C28_DiscrepancyIsDifference ==
  SuccessfulAnalysis =>
    /\ resp.aiCalls = 1 <=> Abs(AnalysedDifference) >= Unit
    /\ resp.body.discrepancyAmount = resp.body.actualTill - resp.body.expectedTill

\* C28: the same test, strict at 1.00 on the absolute value; the
\* discrepancyAmount of a material analysis is its actualTill minus its
\* expectedTill, and that of an immaterial one is 0 whatever the difference.
C28_DiscrepancyOfMaterial ==
  SuccessfulAnalysis =>
    /\ resp.aiCalls = 1 <=> Abs(AnalysedDifference) >= Unit
    /\ resp.aiCalls = 0 <=> Abs(AnalysedDifference) < Unit
    /\ resp.body.actualTill = resp.request.actualTillAmount
    /\ resp.body.discrepancyAmount =
         IF Abs(AnalysedDifference) < Unit THEN 0
         ELSE resp.body.actualTill - resp.body.expectedTill

\* a count exactly 1.00 under the expected till, analysed as material
C28_Witness ==
  /\ SuccessfulAnalysis
  /\ AnalysedDifference = 0 - Unit
  /\ resp.aiCalls = 1
  /\ resp.body.discrepancyAmount = 0 - Unit

\* the decimals of up to two fraction digits written in s at position p and
\* followed by suffix: <<k, n>> is k integer digits and n fraction digits
DecimalsAt(s, p, suffix) ==
  { kn \in (1..Len(s)) \X (0..2) :
      LET k == kn[1]
          n == kn[2]
      IN /\ p + k - 1 <= Len(s)
         /\ \A j \in p..(p + k - 1) : s[j] \in Digits
         /\ IF n = 0
            THEN LitAt(s, p + k, suffix) /\ (suffix = <<>> => ~LitAt(s, p + k, <<".">>))
            ELSE /\ p + k + n <= Len(s)
                 /\ s[p + k] = "."
                 /\ \A j \in (p + k + 1)..(p + k + n) : s[j] \in Digits
                 /\ LitAt(s, p + k + n + 1, suffix)
                 /\ suffix = <<>> => (p + k + n = Len(s) \/ s[p + k + n + 1] \notin Digits) }

\* the amount written in s between prefix and suffix, in cents
Written(s, prefix, suffix) ==
  LET starts == { i \in 1..Len(s) :
                    LitAt(s, i, prefix) /\ DecimalsAt(s, i + Len(prefix), suffix) # {} }
  IN IF starts = {}
     THEN [found |-> FALSE, amount |-> 0]
     ELSE LET i == CHOOSE x \in starts : \A y \in starts : x <= y
              p == i + Len(prefix)
              ds == DecimalsAt(s, p, suffix)
              k == CHOOSE x \in {d[1] : d \in ds} : \A d \in ds : d[1] <= x
              n == CHOOSE x \in {d[2] : d \in {e \in ds : e[1] = k}} :
                     \A d \in {e \in ds : e[1] = k} : d[2] <= x
              int == DigitsValue(SubSeq(s, p, p + k - 1))
          IN [found |-> TRUE,
              amount |-> Unit * int
                         + (IF n >= 1 THEN 10 * DigitVal(s[p + k + 1]) ELSE 0)
                         + (IF n = 2 THEN DigitVal(s[p + k + 2]) ELSE 0)]

\* C29 (as claimed): a summary takes out of the till, for a cash cashout
\* whose notes write the cash received in the current format as a decimal of
\* zero, one or two fraction digits, the whole amount written, the same in
\* every summary of the same notes.
C29_FullAmount ==
  IsSummary =>
    \A t \in BagToSet(playerTransaction) :
      LET w == Written(t.notes.s, LitReceived, LitCash)
      IN (/\ t.gameSessionId = SummaryOf
          /\ t.type = "cashout" /\ t.paymentMethod = "cash"
          /\ ~t.notes.null /\ w.found) =>
           /\ cashCashoutAmount(t) = w.amount
           /\ resp.body.tillBalance = 0 - w.amount

\* C30: a successful update of a player transaction with the body data
\* replaces that one transaction by one with the body's amount and
\* paymentMethod and with the body's notes, null when the body has none; its
\* type, playerName, isPaid and session are as before, and so is every other
\* record of the store.
C30_UpdateFrame ==
  [][resp'.status = 200 =>
       \A u \in Users, row \in BagToSet(playerTransaction),
          data \in TxUpdateRequests \cup TxUpdateRequestsOmitting :
         UpdateTransactionFrom(u, row, {data}) =>
           /\ \E new \in BagToSet(playerTransaction') :
                /\ new.amount = data.amount
                /\ new.paymentMethod = data.paymentMethod
                /\ new.notes = (IF data.notes = Undefined THEN NullNote ELSE data.notes)
                /\ \A f \in DOMAIN row \ {"amount", "paymentMethod", "notes"} :
                     new[f] = row[f]
                /\ DOMAIN new = DOMAIN row
                /\ playerTransaction' (-) SetToBag({new})
                     = playerTransaction (-) SetToBag({row})
           /\ UNCHANGED <<user, gameSession, gameSessionMember, dealerDown, expense>>]_vars

\* an unpaid transaction updated by a body without notes, beside a down
C30_Witness ==
  /\ resp.op = "updateTransaction" /\ resp.status = 200
  /\ \E t \in BagToSet(playerTransaction) :
       t.amount = 12345 /\ t.notes = NullNote /\ ~t.isPaid /\ t.type = "buy-in"
  /\ dealerDown # EmptyBag

====
